---- MODULE Spec2Model ----
(***************************************************************************)
(* A state-machine model of the AS7343 spectrophotometer firmware:         *)
(*   - the register bus adapter   (AS7343_i2c_interface.cpp)               *)
(*   - the sensor driver          (Pimoroni_AS7343.cpp)                    *)
(*   - the application layer      (spectro_app.cpp)                        *)
(* The firmware is one sequential thread.  Every bus transaction is one    *)
(* step of the model; pc is the statement the thread is at, stack the      *)
(* return addresses of the calls in progress.  The sensor is the           *)
(* environment: any bus transaction may fail, the data-ready bit is set    *)
(* when the sensor pleases, and the sensor may complete a new acquisition  *)
(* between any two steps.                                                  *)
(***************************************************************************)
EXTENDS Integers, Sequences, FiniteSets, TLC

VARIABLES
    dev,                  \* the sensor: its registers, identity, acquisition number
    s_dataReadyTimeoutMs, \* driver static: the data-ready timeout
    s_appMode,            \* application static: operating mode
    s_precMode,           \* application static: precision mode
    pc,                   \* the statement the thread is at
    stack,                \* return addresses of the calls in progress
    ret,                  \* the value the last returning function returned
    loc,                  \* parameters and locals of the functions in progress
    buf,                  \* the caller's buffers (Measurement raw/sorted, scratch)
    bus,                  \* bus transactions issued since the current call began
    out,                  \* serial lines emitted since the current call began
    serin,                \* inbound serial bytes not yet consumed
    now,                  \* millis(): the 32-bit millisecond counter
    call,                 \* the public operation in progress (or last completed)
    pre                   \* the sensor as it was when that operation was called

vars == <<dev, s_dataReadyTimeoutMs, s_appMode, s_precMode, pc, stack, ret,
          loc, buf, bus, out, serin, now, call, pre>>

----------------------------------------------------------------------------
(* Bounds of the model *)

\* a bus transaction takes 0..MaxTxnMs milliseconds of the millis() clock
MaxTxnMs == 1
\* the sensor completes at most MaxGen new acquisitions during one call
MaxGen == 1

----------------------------------------------------------------------------
(* Program constants *)

AS7343_DEVICE_ID == 129
AS7343_REG_ID == 90
AS7343_REG_ENABLE == 128
AS7343_REG_ATIME == 129
AS7343_REG_STATUS2 == 144
AS7343_REG_DATA0_L == 149
AS7343_REG_CFG0 == 191
AS7343_REG_CFG1 == 198
AS7343_REG_ASTEP_L == 212
AS7343_REG_ASTEP_H == 213
AS7343_REG_CFG20 == 214
AS7343_NUM_CHANNELS == 18
AS7343_NUM_SORTED_CHANNELS == 12
AS7343_STATUS2_AVALID_BIT == 64
AS7343_REG_BANK_0 == 0
AS7343_REG_BANK_1 == 1

Word8 == 256
Word16 == 65536

----------------------------------------------------------------------------
(* Bit arithmetic on unsigned integers *)

RECURSIVE BitAnd(_, _)
BitAnd(a, b) ==
    IF a = 0 \/ b = 0 THEN 0
    ELSE (a % 2) * (b % 2) + 2 * BitAnd(a \div 2, b \div 2)

RECURSIVE BitOr(_, _)
BitOr(a, b) ==
    IF a = 0 THEN b
    ELSE IF b = 0 THEN a
    ELSE (IF a % 2 = 1 \/ b % 2 = 1 THEN 1 ELSE 0) + 2 * BitOr(a \div 2, b \div 2)

\* ~m as it lands in a uint8_t operand
Not8(m) == (Word8 - 1) - (m % Word8)

Bit(v, b) == (v \div (2 ^ b)) % 2

\* uint32_t values are kept as two 16-bit halves [hi, lo]
U32(hi, lo) == [hi |-> hi, lo |-> lo]

\* a + n modulo 2^32, for 0 <= n < 2^16
Add32(a, n) ==
    U32((a.hi + ((a.lo + n) \div Word16)) % Word16, (a.lo + n) % Word16)

\* a - b modulo 2^32
Sub32(a, b) ==
    LET borrow == IF a.lo < b.lo THEN 1 ELSE 0
    IN  U32((a.hi - b.hi - borrow + 2 * Word16) % Word16,
            (a.lo - b.lo + Word16) % Word16)

\* (uint16_t) x
Trunc16(x) == x.lo

----------------------------------------------------------------------------
(* The sensor *)

\* the registers the firmware writes; all live at 0x80 and above
StoredRegs == {AS7343_REG_ENABLE, AS7343_REG_ATIME, AS7343_REG_CFG0,
               AS7343_REG_CFG1, AS7343_REG_ASTEP_L, AS7343_REG_ASTEP_H,
               AS7343_REG_CFG20}

DataRegs == AS7343_REG_DATA0_L .. (AS7343_REG_DATA0_L + 2 * AS7343_NUM_CHANNELS - 1)

\* the 16-bit count of channel ch (0..17) in the sensor's g-th acquisition;
\* acquisition 0 holds ch in channel ch, later ones use both bytes
SensorVal(g, ch) == IF g = 0 THEN ch ELSE (300 * ch + 1000 * g + 7) % Word16

\* the data registers: channel ch is at DATA0_L + 2*ch, low byte first
DataReg(g, a) ==
    LET off == a - AS7343_REG_DATA0_L
        v   == SensorVal(g, off \div 2)
    IN  IF off % 2 = 0 THEN v % Word8 ELSE v \div Word8

\* the bank bit: CFG0 bit 4 (REG_BANK)
DevBank(d) == Bit(d.reg[AS7343_REG_CFG0], 4)

\* the byte the sensor d returns for register a; rdy: whether AVALID is set
DevRead(d, a, rdy) ==
    IF a \in StoredRegs THEN d.reg[a]
    ELSE IF a = AS7343_REG_STATUS2
         THEN d.st2lo + (IF rdy THEN AS7343_STATUS2_AVALID_BIT ELSE 0)
    ELSE IF a = AS7343_REG_ID THEN (IF DevBank(d) = 1 THEN d.id ELSE 0)
    ELSE IF a \in DataRegs THEN DataReg(d.gen, a)
    ELSE 0

\* the sensor after an acknowledged write of byte v to register a
DevWrite(d, a, v) ==
    IF a \in StoredRegs THEN [d EXCEPT !.reg[a] = v] ELSE d

----------------------------------------------------------------------------
(* The register bus adapter.  Each operator is the set of outcomes of one  *)
(* adapter call on the sensor d: whether it succeeded, the bytes read, the *)
(* sensor afterwards, the wire transactions, the serial lines printed and  *)
(* the milliseconds it took.                                               *)

Durations == 0 .. MaxTxnMs

\* one wire transaction: op is "wr" (register write), "ptr" (register-pointer
\* write) or "req" (burst request of len bytes, n received); bank is the
\* sensor's bank bit when it was issued
Tx(op, reg, len, n, ok, data, d) ==
    [op |-> op, reg |-> reg, len |-> len, n |-> n, ok |-> ok, data |-> data,
     bank |-> DevBank(d)]

\* a serial line: a fixed text, the integers printed after it and (for an
\* echoed reply) the characters printed after it
Line(text, args) == [text |-> text, args |-> args, str |-> <<>>]

ShortReadLine(len, n) ==
    Line("Error: Requested %d bytes but received %d bytes", <<len, n>>)

\* AS7343_i2c_write(dev_address, reg, data, 1): err = endTransmission()
AS7343_i2c_write(d, reg, v) ==
    { [ok |-> TRUE, dev |-> DevWrite(d, reg, v),
       log |-> <<Tx("wr", reg, 1, 1, TRUE, <<v>>, d)>>, dt |-> t] : t \in Durations }
    \cup
    { [ok |-> FALSE, dev |-> d,
       log |-> <<Tx("wr", reg, 1, 0, FALSE, <<v>>, d)>>, dt |-> t] : t \in Durations }

\* mutant: the result of the register-pointer write is not checked
AS7343_i2c_read_NoPointerCheck(d, reg, len) ==
    { [ok |-> FALSE, data |-> <<>>,
       log |-> <<Tx("ptr", reg, 0, 0, FALSE, <<>>, d),
                 Tx("req", reg, len, 0, FALSE, <<>>, d)>>,
       out |-> <<ShortReadLine(len, 0)>>, dt |-> t] : t \in Durations }
    \cup
    { [ok |-> TRUE, data |-> [k \in 1 .. len |-> DevRead(d, reg + k - 1, x[2])],
       log |-> <<Tx("ptr", reg, 0, 0, TRUE, <<>>, d),
                 Tx("req", reg, len, len, TRUE,
                    [k \in 1 .. len |-> DevRead(d, reg + k - 1, x[2])], d)>>,
       out |-> <<>>, dt |-> x[1]]
         : x \in Durations \X BOOLEAN }

\* AS7343_i2c_read(dev_address, reg, data, len): the register-pointer write,
\* then requestFrom(len); on failure the caller's bytes are not touched
AS7343_i2c_read(d, reg, len) ==
    { [ok |-> FALSE, data |-> <<>>,
       log |-> <<Tx("ptr", reg, 0, 0, FALSE, <<>>, d)>>,
       out |-> <<>>, dt |-> t] : t \in Durations }
    \cup
    { [ok |-> FALSE, data |-> <<>>,
       log |-> <<Tx("ptr", reg, 0, 0, TRUE, <<>>, d),
                 Tx("req", reg, len, x[2], FALSE, <<>>, d)>>,
       out |-> <<ShortReadLine(len, x[2])>>, dt |-> x[1]]
         : x \in Durations \X (0 .. (len - 1)) }
    \cup
    { [ok |-> TRUE, data |-> [k \in 1 .. len |-> DevRead(d, reg + k - 1, x[2])],
       log |-> <<Tx("ptr", reg, 0, 0, TRUE, <<>>, d),
                 Tx("req", reg, len, len, TRUE,
                    [k \in 1 .. len |-> DevRead(d, reg + k - 1, x[2])], d)>>,
       out |-> <<>>, dt |-> x[1]]
         : x \in Durations \X BOOLEAN }

\* AS7343_i2c_write_reg / AS7343_i2c_read_reg: the one-byte wrappers
AS7343_i2c_write_reg(d, reg, v) == AS7343_i2c_write(d, reg, v)

AS7343_i2c_read_reg(d, reg) == AS7343_i2c_read(d, reg, 1)

\* millis() is read by AS7343_wait_data_ready alone, so the clock is kept only
\* while a wait is in progress (in the wait itself, or in the set_reg_bank it
\* calls): a wait begins at some time of StartTimes and every bus transaction
\* during it takes some time of Durations
InWait ==
    \/ pc \in {"wdr_bank", "wdr_poll", "wdr_check"}
    \/ (stack # <<>> /\ Head(stack) = "wdr_bank")

\* millis() after a bus transaction of t milliseconds
Tick(t) == IF InWait THEN Add32(now, t) ELSE now

\* millis() when a wait begins: just after reset, or about to wrap
StartTimes == {U32(0, 0), U32(Word16 - 1, Word16 - 2)}

\* the wait is over: its locals are dead and the clock is no longer kept
WaitOver(l) ==
    [l EXCEPT !.start = U32(0, 0), !.status2 = 0]

----------------------------------------------------------------------------
(* Control: calls and returns *)

LocInit ==
    [bank |-> 0, cfg0 |-> 0, id |-> 0, gain |-> 0, cfg1 |-> 0, enable |-> 0,
     cfg20 |-> 0, atime |-> 0, astep |-> 0, start |-> U32(0, 0), status2 |-> 0,
     i |-> 0, reg |-> 0, dst |-> "raw", ch |-> 0,
     prec |-> 0, null |-> FALSE, length |-> 0, line |-> <<>>]

\* a call: continue at the callee's first statement, come back to back
Goto(l) == pc' = l /\ UNCHANGED stack

CallTo(entry, back) == pc' = entry /\ stack' = <<back>> \o stack

\* return v to the caller
Return(v) == pc' = Head(stack) /\ stack' = Tail(stack) /\ ret' = v

\* one bus read by the thread: r is the outcome
BusRead(r) ==
    /\ bus' = bus \o r.log
    /\ out' = out \o r.out
    /\ now' = Tick(r.dt)

\* one bus write by the thread: w is the outcome
BusWrite(w) ==
    /\ dev' = w.dev
    /\ bus' = bus \o w.log
    /\ now' = Tick(w.dt)

----------------------------------------------------------------------------
(* AS7343_set_reg_bank(bank): read-modify-write of CFG0 bit 4 *)

srb_read ==
    /\ pc = "srb_read"
    /\ \E r \in AS7343_i2c_read_reg(dev, AS7343_REG_CFG0) :
         /\ BusRead(r)
         /\ IF r.ok
            THEN /\ loc' = [loc EXCEPT !.cfg0 = r.data[1]]
                 /\ Goto("srb_write")
                 /\ UNCHANGED ret
            ELSE /\ Return(FALSE)
                 /\ UNCHANGED loc
    /\ UNCHANGED <<dev, s_dataReadyTimeoutMs, s_appMode, s_precMode, buf,
                   serin, call, pre>>

\* mutant: the byte written holds the bank bit and nothing else
SetBankBit_Overwrite(cfg0, bank) ==
    IF bank = AS7343_REG_BANK_1 THEN 2 ^ 4 ELSE 0

SetBankBit(cfg0, bank) ==
    IF bank = AS7343_REG_BANK_1
    THEN BitOr(cfg0, 2 ^ 4)
    ELSE BitAnd(cfg0, Not8(2 ^ 4))

\* mutant: the acknowledgement of the CFG0 write is not looked at
srb_write_IgnoresAck ==
    /\ pc = "srb_write"
    /\ LET v == SetBankBit(loc.cfg0, loc.bank)
       IN  \E w \in AS7343_i2c_write_reg(dev, AS7343_REG_CFG0, v) :
             /\ BusWrite(w)
             /\ loc' = [loc EXCEPT !.cfg0 = v]
             /\ Return(TRUE)
    /\ UNCHANGED <<s_dataReadyTimeoutMs, s_appMode, s_precMode, buf, out,
                   serin, call, pre>>

srb_write ==
    /\ pc = "srb_write"
    /\ LET v == SetBankBit(loc.cfg0, loc.bank)
       IN  \E w \in AS7343_i2c_write_reg(dev, AS7343_REG_CFG0, v) :
             /\ BusWrite(w)
             /\ loc' = [loc EXCEPT !.cfg0 = v]
             /\ Return(w.ok)
    /\ UNCHANGED <<s_dataReadyTimeoutMs, s_appMode, s_precMode, buf, out,
                   serin, call, pre>>

AS7343_set_reg_bank == srb_read \/ srb_write

----------------------------------------------------------------------------
(* AS7343_is_connected() *)

ic_bank1 ==
    /\ pc = "ic_bank1"
    /\ loc' = [loc EXCEPT !.id = 0, !.bank = AS7343_REG_BANK_1]
    /\ CallTo("srb_read", "ic_id")
    /\ UNCHANGED <<dev, s_dataReadyTimeoutMs, s_appMode, s_precMode, ret, buf,
                   bus, out, serin, now, call, pre>>

ic_id ==
    /\ pc = "ic_id"
    /\ IF ~ret
       THEN /\ Return(FALSE)
            /\ UNCHANGED <<loc, bus, out, now>>
       ELSE \E r \in AS7343_i2c_read_reg(dev, AS7343_REG_ID) :
              /\ BusRead(r)
              /\ IF r.ok
                 THEN /\ loc' = [loc EXCEPT !.id = r.data[1],
                                            !.bank = AS7343_REG_BANK_0]
                      /\ CallTo("srb_read", "ic_bank0")
                      /\ UNCHANGED ret
                 ELSE /\ Return(FALSE)
                      /\ UNCHANGED loc
    /\ UNCHANGED <<dev, s_dataReadyTimeoutMs, s_appMode, s_precMode, buf,
                   serin, call, pre>>

\* mutant: the result of the switch back to bank 0 is ignored
ic_bank0_IgnoreRestore ==
    /\ pc = "ic_bank0"
    /\ Return(loc.id = AS7343_DEVICE_ID)
    /\ UNCHANGED <<dev, s_dataReadyTimeoutMs, s_appMode, s_precMode, loc, buf,
                   bus, out, serin, now, call, pre>>

ic_bank0 ==
    /\ pc = "ic_bank0"
    /\ IF ~ret THEN Return(FALSE) ELSE Return(loc.id = AS7343_DEVICE_ID)
    /\ UNCHANGED <<dev, s_dataReadyTimeoutMs, s_appMode, s_precMode, loc, buf,
                   bus, out, serin, now, call, pre>>

AS7343_is_connected == ic_bank1 \/ ic_id \/ ic_bank0

----------------------------------------------------------------------------
(* AS7343_set_gain(gain): read-modify-write of CFG1 bits 4..0 *)

sg_entry ==
    /\ pc = "sg_entry"
    /\ loc' = [loc EXCEPT !.bank = AS7343_REG_BANK_0, !.cfg1 = 0]
    /\ CallTo("srb_read", "sg_read")
    /\ UNCHANGED <<dev, s_dataReadyTimeoutMs, s_appMode, s_precMode, ret, buf,
                   bus, out, serin, now, call, pre>>

sg_read ==
    /\ pc = "sg_read"
    /\ IF ~ret
       THEN /\ Return(FALSE)
            /\ UNCHANGED <<loc, bus, out, now>>
       ELSE \E r \in AS7343_i2c_read_reg(dev, AS7343_REG_CFG1) :
              /\ BusRead(r)
              /\ IF r.ok
                 THEN /\ loc' = [loc EXCEPT !.cfg1 = r.data[1]]
                      /\ Goto("sg_write")
                      /\ UNCHANGED ret
                 ELSE /\ Return(FALSE)
                      /\ UNCHANGED loc
    /\ UNCHANGED <<dev, s_dataReadyTimeoutMs, s_appMode, s_precMode, buf,
                   serin, call, pre>>

\* mutant: the gain bits are ORed in without clearing the old ones
SetGainBits_NoClear(cfg1, gain) == BitOr(cfg1, BitAnd(gain, 31))

\* cfg1 &= ~0x1F; cfg1 |= (gain & 0x1F)
SetGainBits(cfg1, gain) == BitOr(BitAnd(cfg1, Not8(31)), BitAnd(gain, 31))

sg_write ==
    /\ pc = "sg_write"
    /\ LET v == SetGainBits(loc.cfg1, loc.gain)
       IN  \E w \in AS7343_i2c_write_reg(dev, AS7343_REG_CFG1, v) :
             /\ BusWrite(w)
             /\ loc' = [loc EXCEPT !.cfg1 = v]
             /\ Return(w.ok)
    /\ UNCHANGED <<s_dataReadyTimeoutMs, s_appMode, s_precMode, buf, out,
                   serin, call, pre>>

AS7343_set_gain == sg_entry \/ sg_read \/ sg_write

----------------------------------------------------------------------------
(* AS7343_set_integration_time(atime, astep) *)

sit_entry ==
    /\ pc = "sit_entry"
    /\ loc' = [loc EXCEPT !.bank = AS7343_REG_BANK_0]
    /\ CallTo("srb_read", "sit_atime")
    /\ UNCHANGED <<dev, s_dataReadyTimeoutMs, s_appMode, s_precMode, ret, buf,
                   bus, out, serin, now, call, pre>>

sit_atime ==
    /\ pc = "sit_atime"
    /\ IF ~ret
       THEN /\ Return(FALSE)
            /\ UNCHANGED <<dev, bus, now>>
       ELSE \E w \in AS7343_i2c_write_reg(dev, AS7343_REG_ATIME, loc.atime) :
              /\ BusWrite(w)
              /\ IF w.ok
                 THEN Goto("sit_astep_l") /\ UNCHANGED ret
                 ELSE Return(FALSE)
    /\ UNCHANGED <<s_dataReadyTimeoutMs, s_appMode, s_precMode, loc, buf, out,
                   serin, call, pre>>

\* uint8_t astep_l = astep & 0xFF; uint8_t astep_h = (astep >> 8) & 0xFF
AstepLow(astep) == BitAnd(astep, 255)

\* mutant: the high byte is taken without the shift
AstepHigh_NoShift(astep) == BitAnd(astep, 255)

AstepHigh(astep) == BitAnd(astep \div Word8, 255)

sit_astep_l ==
    /\ pc = "sit_astep_l"
    /\ \E w \in AS7343_i2c_write_reg(dev, AS7343_REG_ASTEP_L, AstepLow(loc.astep)) :
         /\ BusWrite(w)
         /\ IF w.ok
            THEN Goto("sit_astep_h") /\ UNCHANGED ret
            ELSE Return(FALSE)
    /\ UNCHANGED <<s_dataReadyTimeoutMs, s_appMode, s_precMode, loc, buf, out,
                   serin, call, pre>>

sit_astep_h ==
    /\ pc = "sit_astep_h"
    /\ \E w \in AS7343_i2c_write_reg(dev, AS7343_REG_ASTEP_H, AstepHigh(loc.astep)) :
         /\ BusWrite(w)
         /\ Return(w.ok)
    /\ UNCHANGED <<s_dataReadyTimeoutMs, s_appMode, s_precMode, loc, buf, out,
                   serin, call, pre>>

AS7343_set_integration_time ==
    sit_entry \/ sit_atime \/ sit_astep_l \/ sit_astep_h

----------------------------------------------------------------------------
(* AS7343_wait_data_ready(): poll STATUS2.AVALID until s_dataReadyTimeoutMs *)

wdr_entry ==
    /\ pc = "wdr_entry"
    /\ now' \in StartTimes
    /\ loc' = [loc EXCEPT !.start = now', !.status2 = 0,
                          !.bank = AS7343_REG_BANK_0]
    /\ CallTo("srb_read", "wdr_bank")
    /\ UNCHANGED <<dev, s_dataReadyTimeoutMs, s_appMode, s_precMode, ret, buf,
                   bus, out, serin, call, pre>>

wdr_bank ==
    /\ pc = "wdr_bank"
    /\ IF ~ret THEN Return(FALSE) ELSE Goto("wdr_poll") /\ UNCHANGED ret
    /\ UNCHANGED <<dev, s_dataReadyTimeoutMs, s_appMode, s_precMode, loc, buf,
                   bus, out, serin, now, call, pre>>

\* mutant: the bit below AVALID is tested
Avalid_Bit5(status2) == BitAnd(status2, 32) # 0

\* status2 & AS7343_STATUS2_AVALID_BIT
Avalid(status2) == BitAnd(status2, AS7343_STATUS2_AVALID_BIT) # 0

\* the log after a poll: the loop repeats one transaction without bound, so a
\* poll that repeats the transactions the log ends with is recorded once
LogPoll(log, txs) ==
    IF Len(log) >= Len(txs)
       /\ SubSeq(log, Len(log) - Len(txs) + 1, Len(log)) = txs
    THEN log
    ELSE log \o txs

\* the body of the do-while: one read of STATUS2
\* since the wait began at which this poll started
wdr_poll ==
    /\ pc = "wdr_poll"
    /\ \E r \in AS7343_i2c_read_reg(dev, AS7343_REG_STATUS2) :
         /\ bus' = LogPoll(bus, r.log)
         /\ out' = out \o r.out
         /\ now' = Tick(r.dt)
         /\ IF ~r.ok
            THEN /\ Return(FALSE)
                 /\ UNCHANGED loc
            ELSE /\ loc' = [loc EXCEPT !.status2 = r.data[1]]
                 /\ IF Avalid(r.data[1])
                    THEN Return(TRUE)
                    ELSE Goto("wdr_check") /\ UNCHANGED ret
    /\ UNCHANGED <<dev, s_dataReadyTimeoutMs, s_appMode, s_precMode, buf,
                   serin, call, pre>>

\* mutant: the elapsed time cut to 8 bits
Elapsed16_Byte(t, start) == Trunc16(Sub32(t, start)) % Word8

\* mutant: a clock value below the start value counts as no time elapsed
Elapsed16_NoWrap(t, start) ==
    IF t.hi < start.hi \/ (t.hi = start.hi /\ t.lo < start.lo)
    THEN 0
    ELSE Trunc16(Sub32(t, start))

\* (uint16_t)(millis() - start)
Elapsed16(t, start) == Trunc16(Sub32(t, start))

\* while ((uint16_t)(millis() - start) < s_dataReadyTimeoutMs)
wdr_check ==
    /\ pc = "wdr_check"
    /\ IF Elapsed16(now, loc.start) < s_dataReadyTimeoutMs
       THEN Goto("wdr_poll") /\ UNCHANGED ret
       ELSE Return(FALSE)
    /\ UNCHANGED <<dev, s_dataReadyTimeoutMs, s_appMode, s_precMode, loc, buf,
                   bus, out, serin, now, call, pre>>

AS7343_wait_data_ready == wdr_entry \/ wdr_bank \/ wdr_poll \/ wdr_check

----------------------------------------------------------------------------
(* AS7343_read_all_channels(data, length) and                               *)
(* AS7343_read_single_channel(ch, value)                                    *)

\* mutant: the two bytes assembled high byte first
Assemble16_BigEndian(raw) == BitOr((raw[1] * Word8) % Word16, raw[2])

\* ((uint16_t)raw[1] << 8) | raw[0]
Assemble16(raw) == BitOr((raw[2] * Word8) % Word16, raw[1])

\* mutant: the length is not looked at
rac_entry_NullOnly ==
    /\ pc = "rac_entry"
    /\ IF loc.null
       THEN /\ Return(FALSE)
            /\ UNCHANGED loc
       ELSE /\ loc' = [loc EXCEPT !.bank = AS7343_REG_BANK_0]
            /\ CallTo("srb_read", "rac_bank")
            /\ UNCHANGED ret
    /\ UNCHANGED <<dev, s_dataReadyTimeoutMs, s_appMode, s_precMode, buf,
                   bus, out, serin, now, call, pre>>

rac_entry ==
    /\ pc = "rac_entry"
    /\ IF loc.null \/ loc.length < AS7343_NUM_CHANNELS
       THEN /\ Return(FALSE)
            /\ UNCHANGED loc
       ELSE /\ loc' = [loc EXCEPT !.bank = AS7343_REG_BANK_0]
            /\ CallTo("srb_read", "rac_bank")
            /\ UNCHANGED ret
    /\ UNCHANGED <<dev, s_dataReadyTimeoutMs, s_appMode, s_precMode, buf,
                   bus, out, serin, now, call, pre>>

rac_bank ==
    /\ pc = "rac_bank"
    /\ IF ~ret
       THEN Return(FALSE)
       ELSE CallTo("wdr_entry", "rac_ready") /\ UNCHANGED ret
    /\ UNCHANGED <<dev, s_dataReadyTimeoutMs, s_appMode, s_precMode, loc, buf,
                   bus, out, serin, now, call, pre>>

rac_ready ==
    /\ pc = "rac_ready"
    /\ now' = U32(0, 0)
    /\ IF ~ret
       THEN /\ Return(FALSE)
            /\ loc' = WaitOver(loc)
       ELSE /\ loc' = [WaitOver(loc) EXCEPT !.i = 0, !.reg = AS7343_REG_DATA0_L]
            /\ Goto("rac_loop")
            /\ UNCHANGED ret
    /\ UNCHANGED <<dev, s_dataReadyTimeoutMs, s_appMode, s_precMode, buf,
                   bus, out, serin, call, pre>>

\* mutant: a failed burst is skipped and the loop goes on
rac_loop_NoAbort ==
    /\ pc = "rac_loop"
    /\ IF loc.i < AS7343_NUM_CHANNELS
       THEN \E r \in AS7343_i2c_read(dev, loc.reg, 2) :
              /\ BusRead(r)
              /\ buf' = IF r.ok
                        THEN [buf EXCEPT ![loc.dst][loc.i + 1] = Assemble16(r.data)]
                        ELSE buf
              /\ loc' = [loc EXCEPT !.i = (loc.i + 1) % Word8,
                                    !.reg = (loc.reg + 2) % Word8]
              /\ Goto("rac_loop")
              /\ UNCHANGED ret
       ELSE /\ Return(TRUE)
            /\ UNCHANGED <<loc, buf, bus, out, now>>
    /\ UNCHANGED <<dev, s_dataReadyTimeoutMs, s_appMode, s_precMode,
                   serin, call, pre>>

\* for (i = 0; i < AS7343_NUM_CHANNELS; i++, reg += 2): one burst per step
rac_loop ==
    /\ pc = "rac_loop"
    /\ IF loc.i < AS7343_NUM_CHANNELS
       THEN \E r \in AS7343_i2c_read(dev, loc.reg, 2) :
              /\ BusRead(r)
              /\ IF r.ok
                 THEN /\ buf' = [buf EXCEPT ![loc.dst][loc.i + 1] = Assemble16(r.data)]
                      /\ loc' = [loc EXCEPT !.i = (loc.i + 1) % Word8,
                                            !.reg = (loc.reg + 2) % Word8]
                      /\ Goto("rac_loop")
                      /\ UNCHANGED ret
                 ELSE /\ Return(FALSE)
                      /\ UNCHANGED <<loc, buf>>
       ELSE /\ Return(TRUE)
            /\ UNCHANGED <<loc, buf, bus, out, now>>
    /\ UNCHANGED <<dev, s_dataReadyTimeoutMs, s_appMode, s_precMode,
                   serin, call, pre>>

AS7343_read_all_channels == rac_entry \/ rac_bank \/ rac_ready \/ rac_loop

rsc_entry ==
    /\ pc = "rsc_entry"
    /\ IF loc.null
       THEN /\ Return(FALSE)
            /\ UNCHANGED loc
       ELSE /\ loc' = [loc EXCEPT !.bank = AS7343_REG_BANK_0]
            /\ CallTo("srb_read", "rsc_bank")
            /\ UNCHANGED ret
    /\ UNCHANGED <<dev, s_dataReadyTimeoutMs, s_appMode, s_precMode, buf,
                   bus, out, serin, now, call, pre>>

rsc_bank ==
    /\ pc = "rsc_bank"
    /\ IF ~ret
       THEN Return(FALSE)
       ELSE CallTo("wdr_entry", "rsc_ready") /\ UNCHANGED ret
    /\ UNCHANGED <<dev, s_dataReadyTimeoutMs, s_appMode, s_precMode, loc, buf,
                   bus, out, serin, now, call, pre>>

rsc_ready ==
    /\ pc = "rsc_ready"
    /\ now' = U32(0, 0)
    /\ loc' = WaitOver(loc)
    /\ IF ~ret
       THEN /\ Return(FALSE)
            /\ UNCHANGED <<buf, bus, out>>
       ELSE \E r \in AS7343_i2c_read(dev, (AS7343_REG_DATA0_L + loc.ch * 2) % Word8, 2) :
              /\ bus' = bus \o r.log
              /\ out' = out \o r.out
              /\ buf' = IF r.ok THEN [buf EXCEPT !.value = Assemble16(r.data)] ELSE buf
              /\ Return(r.ok)
    /\ UNCHANGED <<dev, s_dataReadyTimeoutMs, s_appMode, s_precMode,
                   serin, call, pre>>

AS7343_read_single_channel == rsc_entry \/ rsc_bank \/ rsc_ready

----------------------------------------------------------------------------
(* AS7343_get_sorted_spectral_channels(data11) *)

\* AS7343_Channel_t: the channels of the sorted view
AS7343_CH_BLUE_FZ_450NM == 0
AS7343_CH_GREEN_FY_555NM == 1
AS7343_CH_ORANGE_FXL_600NM == 2
AS7343_CH_NIR_855NM == 3
AS7343_CH_DARK_BLUE_F2_425NM == 6
AS7343_CH_LIGHT_BLUE_F3_475NM == 7
AS7343_CH_BLUE_F4_515NM == 8
AS7343_CH_BROWN_F6_640NM == 9
AS7343_CH_PURPLE_F1_405NM == 12
AS7343_CH_RED_F7_690NM == 13
AS7343_CH_DARK_RED_F8_745NM == 14
AS7343_CH_GREEN_F5_550NM == 15

\* data11[k-1] = raw[SortedChannel[k]], k = 1..12: 405 nm to 855 nm
SortedChannel ==
    <<AS7343_CH_PURPLE_F1_405NM, AS7343_CH_DARK_BLUE_F2_425NM,
      AS7343_CH_BLUE_FZ_450NM, AS7343_CH_LIGHT_BLUE_F3_475NM,
      AS7343_CH_BLUE_F4_515NM, AS7343_CH_GREEN_F5_550NM,
      AS7343_CH_GREEN_FY_555NM, AS7343_CH_ORANGE_FXL_600NM,
      AS7343_CH_BROWN_F6_640NM, AS7343_CH_RED_F7_690NM,
      AS7343_CH_DARK_RED_F8_745NM, AS7343_CH_NIR_855NM>>

\* mutant: the first 12 raw channels copied in hardware order
SortChannels_Unsorted(raw) ==
    [k \in 1 .. AS7343_NUM_SORTED_CHANNELS |-> raw[k]]

\* the sorted view of an 18-channel reading
SortChannels(raw) ==
    [k \in 1 .. AS7343_NUM_SORTED_CHANNELS |-> raw[SortedChannel[k] + 1]]

gs_entry ==
    /\ pc = "gs_entry"
    /\ IF loc.null
       THEN /\ Return(FALSE)
            /\ UNCHANGED loc
       ELSE /\ loc' = [loc EXCEPT !.dst = "tmp", !.length = AS7343_NUM_CHANNELS]
            /\ CallTo("rac_entry", "gs_copy")
            /\ UNCHANGED ret
    /\ UNCHANGED <<dev, s_dataReadyTimeoutMs, s_appMode, s_precMode, buf,
                   bus, out, serin, now, call, pre>>

\* mutant: the 12 slots are filled before the result of the read is looked at
gs_copy_BeforeCheck ==
    /\ pc = "gs_copy"
    /\ buf' = [buf EXCEPT !.sorted = SortChannels(buf.tmp)]
    /\ Return(ret)
    /\ UNCHANGED <<dev, s_dataReadyTimeoutMs, s_appMode, s_precMode, loc,
                   bus, out, serin, now, call, pre>>

gs_copy ==
    /\ pc = "gs_copy"
    /\ IF ~ret
       THEN /\ Return(FALSE)
            /\ UNCHANGED buf
       ELSE /\ buf' = [buf EXCEPT !.sorted = SortChannels(buf.tmp)]
            /\ Return(TRUE)
    /\ UNCHANGED <<dev, s_dataReadyTimeoutMs, s_appMode, s_precMode, loc,
                   bus, out, serin, now, call, pre>>

AS7343_get_sorted_spectral_channels == gs_entry \/ gs_copy

----------------------------------------------------------------------------
(* AS7343_set_data_ready_timeout(timeout_ms) *)

AS7343_set_data_ready_timeout(timeout_ms) ==
    s_dataReadyTimeoutMs' = timeout_ms

----------------------------------------------------------------------------
(* The application layer: spectro_app.cpp *)

\* SpectroAppMode_t and SpectroPrecisionMode_t
SPECTRO_APP_MODE_DATA_LOG == 0
SPECTRO_APP_MODE_INFER_LOCAL == 1
SPECTRO_APP_MODE_INFER_PC == 2
SPECTRO_PRECISION_LOW == 0
SPECTRO_PRECISION_MEDIUM == 1
SPECTRO_PRECISION_HIGH == 2

\* mutant: the medium and high rows of the table exchanged
PrecisionConfig_Swapped(prec) ==
    IF prec = SPECTRO_PRECISION_LOW
    THEN [atime |-> 0, astep |-> 999, timeout |-> 50]
    ELSE IF prec = SPECTRO_PRECISION_MEDIUM
    THEN [atime |-> 0, astep |-> 65534, timeout |-> 800]
    ELSE [atime |-> 1, astep |-> 20000, timeout |-> 500]

\* mutant: a value that is no enumerator selects the low row
PrecisionConfig_DefaultLow(prec) ==
    IF prec = SPECTRO_PRECISION_MEDIUM
    THEN [atime |-> 1, astep |-> 20000, timeout |-> 500]
    ELSE IF prec = SPECTRO_PRECISION_HIGH
    THEN [atime |-> 0, astep |-> 65534, timeout |-> 800]
    ELSE [atime |-> 0, astep |-> 999, timeout |-> 50]

\* the switch of spectro_app_set_precision_mode: what each case programs
PrecisionConfig(prec) ==
    IF prec = SPECTRO_PRECISION_LOW
    THEN [atime |-> 0, astep |-> 999, timeout |-> 50]
    ELSE IF prec = SPECTRO_PRECISION_MEDIUM
    THEN [atime |-> 1, astep |-> 20000, timeout |-> 500]
    ELSE [atime |-> 0, astep |-> 65534, timeout |-> 800]

\* spectro_app_set_precision_mode(prec): the result of
\* AS7343_set_integration_time is not looked at
\* mutant: selecting a precision puts the mode back to data-log
spm_entry_ResetsMode ==
    /\ pc = "spm_entry"
    /\ s_precMode' = loc.prec
    /\ s_appMode' = SPECTRO_APP_MODE_DATA_LOG
    /\ loc' = [loc EXCEPT !.atime = PrecisionConfig(loc.prec).atime,
                          !.astep = PrecisionConfig(loc.prec).astep]
    /\ CallTo("sit_entry", "spm_timeout")
    /\ UNCHANGED <<dev, s_dataReadyTimeoutMs, ret, buf, bus, out, serin, now,
                   call, pre>>

spm_entry ==
    /\ pc = "spm_entry"
    /\ s_precMode' = loc.prec
    /\ loc' = [loc EXCEPT !.atime = PrecisionConfig(loc.prec).atime,
                          !.astep = PrecisionConfig(loc.prec).astep]
    /\ CallTo("sit_entry", "spm_timeout")
    /\ UNCHANGED <<dev, s_dataReadyTimeoutMs, s_appMode, ret, buf, bus, out,
                   serin, now, call, pre>>

spm_timeout ==
    /\ pc = "spm_timeout"
    /\ AS7343_set_data_ready_timeout(PrecisionConfig(loc.prec).timeout)
    /\ Return(ret)
    /\ UNCHANGED <<dev, s_appMode, s_precMode, loc, buf, bus, out, serin, now,
                   call, pre>>

spectro_app_set_precision_mode == spm_entry \/ spm_timeout

\* spectro_app_set_mode(mode)
spectro_app_set_mode(mode) == s_appMode' = mode

\* spectro_app_init()
ai_entry ==
    /\ pc = "ai_entry"
    /\ s_appMode' = SPECTRO_APP_MODE_DATA_LOG
    /\ s_precMode' = SPECTRO_PRECISION_MEDIUM
    /\ loc' = [loc EXCEPT !.prec = SPECTRO_PRECISION_MEDIUM]
    /\ CallTo("spm_entry", "ai_exit")
    /\ UNCHANGED <<dev, s_dataReadyTimeoutMs, ret, buf, bus, out, serin, now,
                   call, pre>>

ai_exit ==
    /\ pc = "ai_exit"
    /\ Return(ret)
    /\ UNCHANGED <<dev, s_dataReadyTimeoutMs, s_appMode, s_precMode, loc, buf,
                   bus, out, serin, now, call, pre>>

spectro_app_init == ai_entry \/ ai_exit

\* spectro_app_acquire(meas): two reads of the sensor, one into meas->raw,
\* one (inside AS7343_get_sorted_spectral_channels) for meas->sorted
acq_entry ==
    /\ pc = "acq_entry"
    /\ IF loc.null
       THEN /\ Return(FALSE)
            /\ UNCHANGED loc
       ELSE /\ loc' = [loc EXCEPT !.dst = "raw", !.length = AS7343_NUM_CHANNELS]
            /\ CallTo("rac_entry", "acq_sorted")
            /\ UNCHANGED ret
    /\ UNCHANGED <<dev, s_dataReadyTimeoutMs, s_appMode, s_precMode, buf,
                   bus, out, serin, now, call, pre>>

acq_sorted ==
    /\ pc = "acq_sorted"
    /\ IF ~ret
       THEN Return(FALSE)
       ELSE CallTo("gs_entry", "acq_exit") /\ UNCHANGED ret
    /\ UNCHANGED <<dev, s_dataReadyTimeoutMs, s_appMode, s_precMode, loc, buf,
                   bus, out, serin, now, call, pre>>

acq_exit ==
    /\ pc = "acq_exit"
    /\ IF ~ret THEN Return(FALSE) ELSE Return(TRUE)
    /\ UNCHANGED <<dev, s_dataReadyTimeoutMs, s_appMode, s_precMode, loc, buf,
                   bus, out, serin, now, call, pre>>

spectro_app_acquire == acq_entry \/ acq_sorted \/ acq_exit

AcquireErrorLine ==
    Line("[spectro_app] ERROR: Failed to acquire measurement.", <<>>)

\* Print::print(n, DEC) of an unsigned value: its decimal digits, the most
\* significant first, a single "0" for zero
DigitChar(d) == <<"0", "1", "2", "3", "4", "5", "6", "7", "8", "9">>[d + 1]

RECURSIVE PrintNumber(_)
PrintNumber(n) ==
    IF n < 10
    THEN <<DigitChar(n)>>
    ELSE PrintNumber(n \div 10) \o <<DigitChar(n % 10)>>

\* the loop with a comma printed after every value, the last one included
RECURSIVE PrintSorted_TrailingComma(_, _)
PrintSorted_TrailingComma(sorted, i) ==
    IF i < AS7343_NUM_SORTED_CHANNELS
    THEN PrintNumber(sorted[i + 1]) \o <<",">>
             \o PrintSorted_TrailingComma(sorted, i + 1)
    ELSE <<>>

\* the handlers' loop from index i on: Serial.print(meas->sorted[i]), then
\* Serial.print(',') when i < AS7343_NUM_SORTED_CHANNELS - 1
RECURSIVE PrintSorted(_, _)
PrintSorted(sorted, i) ==
    IF i < AS7343_NUM_SORTED_CHANNELS
    THEN PrintNumber(sorted[i + 1])
             \o (IF i < AS7343_NUM_SORTED_CHANNELS - 1 THEN <<",">> ELSE <<>>)
             \o PrintSorted(sorted, i + 1)
    ELSE <<>>

\* one measurement record: the fixed prefix in text, the characters the loop
\* prints in str, ended by Serial.println()
Record(prefix, sorted) ==
    [text |-> prefix, args |-> <<>>, str |-> PrintSorted(sorted, 0)]

DataLogPrefix == "SORTED(405-855nm): "

InferLocalPrefix == "[spectro_app] Local inference stub. Inputs: "

InferPcPrefix == "MEAS,"

PcResponsePrefix == "[spectro_app] PC response: "

DataLogLine(sorted) == Record(DataLogPrefix, sorted)

InferLocalLine(sorted) == Record(InferLocalPrefix, sorted)

InferPcLine(sorted) == Record(InferPcPrefix, sorted)

PcResponseLine(s) ==
    [text |-> PcResponsePrefix, args |-> <<>>, str |-> s]

\* spectro_app_run_once()
ro_entry ==
    /\ pc = "ro_entry"
    /\ loc' = [loc EXCEPT !.null = FALSE]
    /\ CallTo("acq_entry", "ro_dispatch")
    /\ UNCHANGED <<dev, s_dataReadyTimeoutMs, s_appMode, s_precMode, ret, buf,
                   bus, out, serin, now, call, pre>>

\* mutant: the cases of the switch select each other's handlers
Handler_Rotated(mode) ==
    IF mode = SPECTRO_APP_MODE_INFER_LOCAL THEN "h_infer_pc"
    ELSE IF mode = SPECTRO_APP_MODE_INFER_PC THEN "h_data_log"
    ELSE "h_infer_local"

\* the handler the switch on s_appMode selects
Handler(mode) ==
    IF mode = SPECTRO_APP_MODE_INFER_LOCAL THEN "h_infer_local"
    ELSE IF mode = SPECTRO_APP_MODE_INFER_PC THEN "h_infer_pc"
    ELSE "h_data_log"

\* mutant: the return after the diagnostic is missing
ro_dispatch_NoReturn ==
    /\ pc = "ro_dispatch"
    /\ out' = IF ~ret THEN Append(out, AcquireErrorLine) ELSE out
    /\ CallTo(Handler(s_appMode), "ro_exit")
    /\ UNCHANGED <<dev, s_dataReadyTimeoutMs, s_appMode, s_precMode, ret, loc,
                   buf, bus, serin, now, call, pre>>

\* mutant: a failed acquisition is followed by AS7343_init before returning
ro_dispatch_Reinit ==
    /\ pc = "ro_dispatch"
    /\ IF ~ret
       THEN /\ out' = Append(out, AcquireErrorLine)
            /\ CallTo("init_entry", "ro_exit")
            /\ UNCHANGED ret
       ELSE /\ CallTo(Handler(s_appMode), "ro_exit")
            /\ UNCHANGED <<ret, out>>
    /\ UNCHANGED <<dev, s_dataReadyTimeoutMs, s_appMode, s_precMode, loc, buf,
                   bus, serin, now, call, pre>>

ro_dispatch ==
    /\ pc = "ro_dispatch"
    /\ IF ~ret
       THEN /\ out' = Append(out, AcquireErrorLine)
            /\ Return(ret)
       ELSE /\ CallTo(Handler(s_appMode), "ro_exit")
            /\ UNCHANGED <<ret, out>>
    /\ UNCHANGED <<dev, s_dataReadyTimeoutMs, s_appMode, s_precMode, loc, buf,
                   bus, serin, now, call, pre>>

ro_exit ==
    /\ pc = "ro_exit"
    /\ Return(ret)
    /\ UNCHANGED <<dev, s_dataReadyTimeoutMs, s_appMode, s_precMode, loc, buf,
                   bus, out, serin, now, call, pre>>

spectro_app_run_once == ro_entry \/ ro_dispatch \/ ro_exit

\* spectro_app_handle_data_log(meas)
spectro_app_handle_data_log ==
    /\ pc = "h_data_log"
    /\ out' = Append(out, DataLogLine(buf.sorted))
    /\ Return(ret)
    /\ UNCHANGED <<dev, s_dataReadyTimeoutMs, s_appMode, s_precMode, loc, buf,
                   bus, serin, now, call, pre>>

\* spectro_app_handle_infer_local(meas)
spectro_app_handle_infer_local ==
    /\ pc = "h_infer_local"
    /\ out' = Append(out, InferLocalLine(buf.sorted))
    /\ Return(ret)
    /\ UNCHANGED <<dev, s_dataReadyTimeoutMs, s_appMode, s_precMode, loc, buf,
                   bus, serin, now, call, pre>>

\* Serial.readStringUntil('\n') on the pending bytes rx: the characters before
\* the first newline, which is consumed with them; all of rx if it holds none
NewlineAt(rx) ==
    IF \E k \in 1 .. Len(rx) : rx[k] = "\n"
    THEN CHOOSE k \in 1 .. Len(rx) :
            rx[k] = "\n" /\ \A j \in 1 .. (k - 1) : rx[j] # "\n"
    ELSE Len(rx) + 1

ReadLine(rx) == SubSeq(rx, 1, NewlineAt(rx) - 1)

\* mutant: the read drains everything that is pending
AfterLine_Flush(rx) == <<>>

AfterLine(rx) == SubSeq(rx, NewlineAt(rx) + 1, Len(rx))

IsSpace(c) == c \in {" ", "\n", "\r", "\t"}

\* String::trim(): leading and trailing whitespace removed
RECURSIVE TrimLeft(_)
TrimLeft(s) ==
    IF s # <<>> /\ IsSpace(Head(s)) THEN TrimLeft(Tail(s)) ELSE s

RECURSIVE TrimRight(_)
TrimRight(s) ==
    IF s # <<>> /\ IsSpace(s[Len(s)])
    THEN TrimRight(SubSeq(s, 1, Len(s) - 1))
    ELSE s

Trim(s) == TrimRight(TrimLeft(s))

\* spectro_app_handle_infer_pc(meas): the MEAS record, then the reply check
h_infer_pc ==
    /\ pc = "h_infer_pc"
    /\ out' = Append(out, InferPcLine(buf.sorted))
    /\ Goto("h_pc_reply")
    /\ UNCHANGED <<dev, s_dataReadyTimeoutMs, s_appMode, s_precMode, ret, loc,
                   buf, bus, serin, now, call, pre>>

\* line.trim(); if (line.length() > 0) the response record with the line
Echo(o, line) ==
    IF Len(Trim(line)) > 0 THEN Append(o, PcResponseLine(Trim(line))) ELSE o

\* bytes the PC may still send while readStringUntil waits for a newline
LateSamples == {<<"!", "\n">>}

\* mutant: the read is not guarded by Serial.available()
h_pc_reply_Unguarded ==
    /\ pc = "h_pc_reply"
    /\ IF NewlineAt(serin) <= Len(serin)
       THEN /\ serin' = AfterLine(serin)
            /\ loc' = [loc EXCEPT !.line = ReadLine(serin)]
            /\ out' = Echo(out, ReadLine(serin))
            /\ Return(ret)
       ELSE /\ serin' = <<>>
            /\ loc' = [loc EXCEPT !.line = serin]
            /\ Goto("h_pc_wait")
            /\ UNCHANGED <<out, ret>>
    /\ UNCHANGED <<dev, s_dataReadyTimeoutMs, s_appMode, s_precMode, buf, bus,
                   now, call, pre>>

\* if (Serial.available()): readStringUntil('\n') takes the pending bytes up to
\* the first newline; with no newline pending it takes them all and waits
h_pc_reply ==
    /\ pc = "h_pc_reply"
    /\ IF Len(serin) = 0
       THEN /\ Return(ret)
            /\ UNCHANGED <<serin, out, loc>>
       ELSE IF NewlineAt(serin) <= Len(serin)
       THEN /\ serin' = AfterLine(serin)
            /\ loc' = [loc EXCEPT !.line = ReadLine(serin)]
            /\ out' = Echo(out, ReadLine(serin))
            /\ Return(ret)
       ELSE /\ serin' = <<>>
            /\ loc' = [loc EXCEPT !.line = serin]
            /\ Goto("h_pc_wait")
            /\ UNCHANGED <<out, ret>>
    /\ UNCHANGED <<dev, s_dataReadyTimeoutMs, s_appMode, s_precMode, buf, bus,
                   now, call, pre>>

\* the wait inside readStringUntil: it ends at the newline of late bytes or,
\* when none arrive, at the stream timeout
h_pc_wait ==
    /\ pc = "h_pc_wait"
    /\ \E late \in LateSamples \cup {<<>>} :
          /\ loc' = [loc EXCEPT !.line = loc.line \o ReadLine(late)]
          /\ serin' = AfterLine(late)
          /\ out' = Echo(out, loc.line \o ReadLine(late))
    /\ Return(ret)
    /\ UNCHANGED <<dev, s_dataReadyTimeoutMs, s_appMode, s_precMode, buf, bus,
                   now, call, pre>>

spectro_app_handle_infer_pc == h_infer_pc \/ h_pc_reply \/ h_pc_wait

----------------------------------------------------------------------------
(* The sensor completes another acquisition: the data registers change *)

SensorComplete ==
    /\ pc # "done"
    /\ dev.gen < MaxGen
    /\ dev' = [dev EXCEPT !.gen = dev.gen + 1]
    /\ UNCHANGED <<s_dataReadyTimeoutMs, s_appMode, s_precMode, pc, stack,
                   ret, loc, buf, bus, out, serin, now, call, pre>>

----------------------------------------------------------------------------
(* The callers.  A test harness calls one public operation at a time, with *)
(* arguments from small sets; pc = "done" is the harness between calls,     *)
(* where ret, buf, bus and out show what the last call did.                 *)

\* the static initialiser of s_dataReadyTimeoutMs
DefaultTimeoutMs == 100

\* what the caller's buffers hold before a call: values no sensor reading has
StaleVal(k) == 60000 + k

StaleBuf ==
    [raw    |-> [k \in 1 .. AS7343_NUM_CHANNELS |-> StaleVal(k)],
     sorted |-> [k \in 1 .. AS7343_NUM_SORTED_CHANNELS |-> StaleVal(100 + k)],
     tmp    |-> [k \in 1 .. AS7343_NUM_CHANNELS |-> StaleVal(200 + k)],
     value  |-> StaleVal(300)]

\* a sensor whose registers hold the given bytes
Sensor(regs, id, st2lo) == [reg |-> regs, id |-> id, gen |-> 0, st2lo |-> st2lo]

\* the registers after power-on, with CFG0, CFG1 as given
Regs(cfg0, cfg1) ==
    [a \in StoredRegs |->
        CASE a = AS7343_REG_CFG0 -> cfg0
          [] a = AS7343_REG_CFG1 -> cfg1
          [] a = AS7343_REG_ASTEP_L -> 231
          [] a = AS7343_REG_ASTEP_H -> 3
          [] OTHER -> 0]

\* the call in progress or last made, with the modes and the pending serial
\* input it found
NoCall == [fn |-> "none", arg |-> 0, mode |-> SPECTRO_APP_MODE_DATA_LOG,
           prec |-> SPECTRO_PRECISION_MEDIUM, rx |-> <<>>]

\* the harness before its first call: a sensor of D, a timeout of T, a
\* precision mode of P
InitWith(D, T, P) ==
    /\ dev \in D
    /\ pre = dev
    /\ s_dataReadyTimeoutMs \in T
    /\ s_appMode = SPECTRO_APP_MODE_DATA_LOG
    /\ s_precMode \in P
    /\ pc = "done"
    /\ stack = <<>>
    /\ ret = FALSE
    /\ loc = LocInit
    /\ buf = StaleBuf
    /\ bus = <<>>
    /\ out = <<>>
    /\ serin = <<>>
    /\ now = U32(0, 0)
    /\ call = NoCall

\* the harness calls fn(arg): entry is its first statement, l its parameters
Enter(fn, arg, entry, l) ==
    /\ pc = "done"
    /\ stack = <<>>
    /\ pc' = entry
    /\ stack' = <<"done">>
    /\ call' = [fn |-> fn, arg |-> arg, mode |-> s_appMode, prec |-> s_precMode,
                rx |-> serin]
    /\ dev' = [dev EXCEPT !.gen = 0]
    /\ pre' = dev'
    /\ loc' = l
    /\ buf' = StaleBuf
    /\ bus' = <<>>
    /\ out' = <<>>
    /\ ret' = FALSE
    /\ UNCHANGED <<s_dataReadyTimeoutMs, s_appMode, s_precMode, serin, now>>

Done(fn) == pc = "done" /\ call.fn = fn

CallSetRegBank ==
    \E b \in {AS7343_REG_BANK_0, AS7343_REG_BANK_1} :
        Enter("AS7343_set_reg_bank", b, "srb_read", [LocInit EXCEPT !.bank = b])

CallIsConnected == Enter("AS7343_is_connected", 0, "ic_bank1", LocInit)

CallReadAll ==
    Enter("AS7343_read_all_channels", 0, "rac_entry",
          [LocInit EXCEPT !.dst = "raw", !.length = AS7343_NUM_CHANNELS])

CallGetSorted == Enter("AS7343_get_sorted_spectral_channels", 0, "gs_entry", LocInit)

\* AS7343_Gain_t: AS7343_GAIN_0_5X = 0 ... AS7343_GAIN_2048X = 12
AS7343_GAIN_0_5X == 0
AS7343_GAIN_2048X == 12

CallSetGain ==
    \E g \in AS7343_GAIN_0_5X .. AS7343_GAIN_2048X :
        Enter("AS7343_set_gain", g, "sg_entry", [LocInit EXCEPT !.gain = g])

CallReadSingle ==
    \E ch \in {AS7343_CH_BLUE_FZ_450NM, AS7343_NUM_CHANNELS - 1} :
        Enter("AS7343_read_single_channel", ch, "rsc_entry",
              [LocInit EXCEPT !.ch = ch])

\* a setter that makes no bus transaction is one step of the harness, which
\* forgets what it saw of the call before
Setter(fn, arg) ==
    /\ pc = "done"
    /\ call' = [fn |-> fn, arg |-> arg, mode |-> s_appMode, prec |-> s_precMode,
                rx |-> serin]
    /\ dev' = [dev EXCEPT !.gen = 0]
    /\ pre' = dev'
    /\ buf' = StaleBuf
    /\ bus' = <<>>
    /\ out' = <<>>
    /\ ret' = FALSE
    /\ UNCHANGED <<pc, stack, loc, now>>

\* the timeouts the firmware configures, and none at all
WaitTimeouts == {0, 50, 100, 500, 800}

CallSetTimeout ==
    \E t \in WaitTimeouts :
        /\ Setter("AS7343_set_data_ready_timeout", t)
        /\ AS7343_set_data_ready_timeout(t)
        /\ UNCHANGED <<s_appMode, s_precMode, serin>>

Modes ==
    {SPECTRO_APP_MODE_DATA_LOG, SPECTRO_APP_MODE_INFER_LOCAL,
     SPECTRO_APP_MODE_INFER_PC}

Precisions ==
    {SPECTRO_PRECISION_LOW, SPECTRO_PRECISION_MEDIUM, SPECTRO_PRECISION_HIGH}

CallSetMode ==
    \E m \in Modes :
        /\ Setter("spectro_app_set_mode", m)
        /\ spectro_app_set_mode(m)
        /\ UNCHANGED <<s_dataReadyTimeoutMs, s_precMode, serin>>

CallSetPrecision ==
    \E p \in Precisions :
        Enter("spectro_app_set_precision_mode", p, "spm_entry",
              [LocInit EXCEPT !.prec = p])

CallAcquire == Enter("spectro_app_acquire", 0, "acq_entry", LocInit)

CallRunOnce == Enter("spectro_app_run_once", 0, "ro_entry", LocInit)

----------------------------------------------------------------------------
(* SpecBank: bank switching and the identity check *)

\* CFG0 before the call: clear, other bits set with bank 0, and with bank 1
Cfg0Samples == {0, 165, 181}

\* the identity register: an AS7343, and some other part
IdSamples == {AS7343_DEVICE_ID, 0}

InitBank ==
    InitWith({Sensor(Regs(c, 9), id, 0) : c \in Cfg0Samples, id \in IdSamples},
             {DefaultTimeoutMs}, {SPECTRO_PRECISION_MEDIUM})

NextBank ==
    \/ CallSetRegBank
    \/ CallIsConnected
    \/ AS7343_set_reg_bank
    \/ AS7343_is_connected

SpecBank == InitBank /\ [][NextBank]_vars

\* the successful writes and the requests of the current call, by register
WritesTo(a) == {k \in 1 .. Len(bus) : bus[k].op = "wr" /\ bus[k].reg = a}

RequestsOf(a) == {k \in 1 .. Len(bus) : bus[k].op = "req" /\ bus[k].reg = a}

PointersTo(a) == {k \in 1 .. Len(bus) : bus[k].op = "ptr" /\ bus[k].reg = a}

\* is_connected: the switch to bank 1 went through
IcBank1Switched ==
    \E k \in WritesTo(AS7343_REG_CFG0) :
        bus[k].ok /\ Bit(bus[k].data[1], 4) = 1

\* is_connected: the identity read was started (pointer write issued)
IcIdReadAt == PointersTo(AS7343_REG_ID)

\* is_connected: a bus transaction of the switch back to bank 0 failed
IcRestoreFailed ==
    \E k \in IcIdReadAt : \E j \in (k + 1) .. Len(bus) :
        bus[j].reg = AS7343_REG_CFG0 /\ ~bus[j].ok

\* C1: after AS7343_is_connected returns, given that the switch to bank 1
\* succeeded (and no transaction of the switch back failed), the bank bit is
\* 0 whether the identity read matched, mismatched or failed on the bus.
C1_BankZeroAfterIsConnected ==
    (Done("AS7343_is_connected") /\ IcBank1Switched /\ ~IcRestoreFailed)
        => DevBank(dev) = 0

----------------------------------------------------------------------------
(* SpecRead: the channel reads, with a short data-ready timeout *)

\* a timeout AS7343_set_data_ready_timeout may have set: a poll or two long
ShortTimeoutMs == 1

\* the bits of STATUS2 other than AVALID: none set, all set
St2Samples == {0, 191}

InitRead ==
    InitWith({Sensor(Regs(c, 9), AS7343_DEVICE_ID, s) :
                 c \in {0, 181}, s \in St2Samples},
             {ShortTimeoutMs}, {SPECTRO_PRECISION_MEDIUM})

NextRead ==
    \/ CallReadAll
    \/ CallGetSorted
    \/ AS7343_set_reg_bank
    \/ AS7343_wait_data_ready
    \/ AS7343_read_all_channels
    \/ AS7343_get_sorted_spectral_channels
    \/ SensorComplete

SpecRead == InitRead /\ [][NextRead]_vars

\* the data bursts of the current call: the indices of their pointer writes
DataPtrs == {i \in 1 .. Len(bus) : bus[i].op = "ptr" /\ bus[i].reg \in DataRegs}

\* the burst at i is the BurstNo(i)-th burst of the call (1, 2, ...)
BurstNo(i) == Cardinality({j \in DataPtrs : j <= i})

\* the burst at i succeeded: pointer write acknowledged, both bytes received
BurstOk(i) ==
    /\ bus[i].ok
    /\ i < Len(bus)
    /\ bus[i + 1].op = "req" /\ bus[i + 1].ok /\ bus[i + 1].n = 2

\* the 16-bit count the sensor sent in the burst at i, low byte first
BurstValue(i) == bus[i + 1].data[1] + 256 * bus[i + 1].data[2]

\* the burst that read channel ch (0..17)
ChannelBurst(ch) ==
    CHOOSE i \in DataPtrs : bus[i].reg = AS7343_REG_DATA0_L + 2 * ch

\* the documented order of the sorted view, as raw indices
DocumentedOrder == <<12, 6, 0, 7, 8, 15, 1, 2, 9, 13, 14, 3>>

\* C3: a successful AS7343_get_sorted_spectral_channels writes raw[12],
\* raw[6], raw[0], raw[7], raw[8], raw[15], raw[1], raw[2], raw[9], raw[13],
\* raw[14], raw[3] of the reading the bus returned into slots 0..11; the
\* reading 0..17 gives 12,6,0,7,8,15,1,2,9,13,14,3; the values of raw indices
\* 4, 5, 10, 11, 16, 17 do not appear.
C3_SortedIsDocumentedPermutation ==
    (Done("AS7343_get_sorted_spectral_channels") /\ ret) =>
        /\ \A k \in 1 .. 12 :
              buf.sorted[k] = BurstValue(ChannelBurst(DocumentedOrder[k]))
        /\ \A k \in 1 .. 12 : \A j \in {4, 5, 10, 11, 16, 17} :
              buf.sorted[k] # BurstValue(ChannelBurst(j))
        /\ (\A ch \in 0 .. 17 : BurstValue(ChannelBurst(ch)) = ch)
              => buf.sorted = <<12, 6, 0, 7, 8, 15, 1, 2, 9, 13, 14, 3>>

\* C3 witness: the reading 0..17 was sorted
C3_Witness ==
    /\ Done("AS7343_get_sorted_spectral_channels") /\ ret
    /\ \A ch \in 0 .. 17 : BurstValue(ChannelBurst(ch)) = ch
    /\ buf.sorted = <<12, 6, 0, 7, 8, 15, 1, 2, 9, 13, 14, 3>>

\* a data burst of the current call failed
FailedBursts == {i \in DataPtrs : ~BurstOk(i)}

\* C8: if the k-th burst of AS7343_read_all_channels fails, the call returns
\* false, no later burst is issued, slots k-1..17 keep their previous contents
\* and slots 0..k-2 hold what bursts 1..k-1 read.
C8_FailedBurstAborts ==
    (call.fn = "AS7343_read_all_channels") =>
        \A i \in FailedBursts :
            LET k == BurstNo(i)
            IN  /\ pc = "done" /\ ~ret
                /\ Cardinality(DataPtrs) = k
                /\ \A j \in DataPtrs : j <= i
                /\ \A s \in k .. 18 : buf.raw[s] = StaleBuf.raw[s]
                /\ \A s \in 1 .. (k - 1) :
                      buf.raw[s] = BurstValue(ChannelBurst(s - 1))

\* C8 witness: the 10th of the 18 bursts failed
C8_Witness ==
    /\ Done("AS7343_read_all_channels")
    /\ \E i \in FailedBursts : BurstNo(i) = 10
    /\ buf.raw[9] # StaleBuf.raw[9]
    /\ buf.raw[10] = StaleBuf.raw[10]

\* C9: AS7343_read_all_channels returns true only if bank 0 was selected, the
\* data-ready bit was seen set and all 18 bursts succeeded; the bursts went
\* to 0x95, 0x97, ..., 0xB7 in that order and data[i] is low + 256 * high of
\* the i-th burst.
C9_TrueMeansAllFresh ==
    (Done("AS7343_read_all_channels") /\ ret) =>
        /\ \E k \in WritesTo(AS7343_REG_CFG0) :
              bus[k].ok /\ Bit(bus[k].data[1], 4) = 0
        /\ \E k \in RequestsOf(AS7343_REG_STATUS2) :
              /\ bus[k].ok /\ Bit(bus[k].data[1], 6) = 1
              /\ \A i \in DataPtrs : i > k
        /\ Cardinality(DataPtrs) = 18
        /\ FailedBursts = {}
        /\ \A i \in DataPtrs : bus[i].reg = 149 + 2 * (BurstNo(i) - 1)
        /\ \A i \in DataPtrs : buf.raw[BurstNo(i)] = BurstValue(i)

\* C9 witness: a full read whose last channel needs both bytes
C9_Witness ==
    /\ Done("AS7343_read_all_channels") /\ ret
    /\ buf.raw[18] > 255
    /\ buf.raw[1] = 0

----------------------------------------------------------------------------
(* SpecGain: AS7343_set_gain on every prior value of CFG1 *)

InitGain ==
    InitWith({Sensor(Regs(c, v), AS7343_DEVICE_ID, 0) :
                 c \in {0, 181}, v \in 0 .. (Word8 - 1)},
             {DefaultTimeoutMs}, {SPECTRO_PRECISION_MEDIUM})

NextGain ==
    \/ CallSetGain
    \/ AS7343_set_reg_bank
    \/ AS7343_set_gain

SpecGain == InitGain /\ [][NextGain]_vars

\* C4: for every gain code g in 0..12 and every prior value v of CFG1, a
\* successful AS7343_set_gain(g) leaves CFG1 with its low 5 bits equal to g
\* and its bits 5..7 equal to those of v.
C4_GainReplacesLowFiveBits ==
    (Done("AS7343_set_gain") /\ ret) =>
        /\ dev.reg[AS7343_REG_CFG1] % 32 = call.arg
        /\ dev.reg[AS7343_REG_CFG1] \div 32 = pre.reg[AS7343_REG_CFG1] \div 32

\* C4 witness: the highest gain code written over a CFG1 whose upper bits and
\* old gain bits were all set
C4_Witness ==
    /\ Done("AS7343_set_gain") /\ ret
    /\ call.arg = AS7343_GAIN_2048X
    /\ pre.reg[AS7343_REG_CFG1] = 255
    /\ dev.reg[AS7343_REG_CFG1] = 236

----------------------------------------------------------------------------
(* SpecPrec: the precision modes, from either register bank *)

InitPrec ==
    InitWith({Sensor(Regs(c, 9), AS7343_DEVICE_ID, 0) : c \in {0, 165}},
             {DefaultTimeoutMs}, {SPECTRO_PRECISION_MEDIUM})

NextPrec ==
    \/ CallSetPrecision
    \/ CallSetRegBank
    \/ spectro_app_set_precision_mode
    \/ AS7343_set_integration_time
    \/ AS7343_set_reg_bank

SpecPrec == InitPrec /\ [][NextPrec]_vars

\* no transaction of the current call failed
BusNeverFailed == \A i \in 1 .. Len(bus) : bus[i].ok

\* the triple of the precision table is what the sensor and the driver hold
TripleProgrammed(atime, astep, timeout) ==
    /\ dev.reg[AS7343_REG_ATIME] = atime
    /\ dev.reg[AS7343_REG_ASTEP_L] + Word8 * dev.reg[AS7343_REG_ASTEP_H] = astep
    /\ s_dataReadyTimeoutMs = timeout

TableProgrammed ==
    /\ call.arg = SPECTRO_PRECISION_LOW => TripleProgrammed(0, 999, 50)
    /\ call.arg = SPECTRO_PRECISION_MEDIUM => TripleProgrammed(1, 20000, 500)
    /\ call.arg = SPECTRO_PRECISION_HIGH => TripleProgrammed(0, 65534, 800)

TimingRegs == {AS7343_REG_ATIME, AS7343_REG_ASTEP_L, AS7343_REG_ASTEP_H}

\* C5 as stated: spectro_app_set_precision_mode(p) on a bus that does not
\* fail programs the table triple of p and changes the value of no device
\* register other than ATIME, ASTEP_L and ASTEP_H.
C5_OnlyTimingRegistersChange ==
    (Done("spectro_app_set_precision_mode") /\ BusNeverFailed) =>
        /\ TableProgrammed
        /\ \A a \in StoredRegs \ TimingRegs : dev.reg[a] = pre.reg[a]

\* C5 amended: spectro_app_set_precision_mode(p) on a bus that does not fail
\* programs the table triple of p, clears the bank bit (bit 4) of CFG0, and
\* changes nothing else: every other bit of CFG0 and every register other
\* than ATIME, ASTEP_L and ASTEP_H keep their values.
C5_TimingRegistersAndBankBit ==
    (Done("spectro_app_set_precision_mode") /\ BusNeverFailed) =>
        /\ TableProgrammed
        /\ dev.reg[AS7343_REG_CFG0] = SetBankBit(pre.reg[AS7343_REG_CFG0], 0)
        /\ \A a \in StoredRegs \ (TimingRegs \cup {AS7343_REG_CFG0}) :
              dev.reg[a] = pre.reg[a]

\* C5 witness: high precision set on a sensor left in bank 1
C5_Witness ==
    /\ Done("spectro_app_set_precision_mode") /\ BusNeverFailed
    /\ call.arg = SPECTRO_PRECISION_HIGH
    /\ DevBank(pre) = 1
    /\ DevBank(dev) = 0
    /\ TripleProgrammed(0, 65534, 800)

----------------------------------------------------------------------------
(* SpecWait: the data-ready wait under each timeout, reached through       *)
(* AS7343_read_single_channel.  SpecWaitLive adds what the scheduling      *)
(* gives: the thread keeps running, and the millisecond clock keeps        *)
(* advancing while it polls.                                               *)

InitWait ==
    InitWith({Sensor(Regs(0, 9), AS7343_DEVICE_ID, 191)},
             {DefaultTimeoutMs}, {SPECTRO_PRECISION_MEDIUM})

NextWait ==
    \/ CallSetTimeout
    \/ CallReadSingle
    \/ AS7343_set_reg_bank
    \/ AS7343_wait_data_ready
    \/ AS7343_read_single_channel

SpecWait == InitWait /\ [][NextWait]_vars

\* a poll during which the millisecond clock advanced
TimedPoll == wdr_poll /\ now' # now

SpecWaitLive ==
    InitWait /\ [][NextWait]_vars /\ WF_vars(NextWait) /\ SF_vars(TimedPoll)

\* the STATUS2 polls of the current call, and those that saw AVALID set
Polls == RequestsOf(AS7343_REG_STATUS2)

ReadyPolls == {k \in Polls : bus[k].ok /\ Bit(bus[k].data[1], 6) = 1}

\* the wait is between two polls / has just returned to read_single_channel
WaitPolling == pc \in {"wdr_poll", "wdr_check"}

WaitReturned == pc = "rsc_ready"

\* C6: AS7343_wait_data_ready returns true on the first poll whose STATUS2
\* read succeeds with bit 6 set, with no bus transaction after that poll,
\* whatever time has elapsed and whatever the timeout (0 included): while the
\* wait goes on no poll has seen the bit, and the wait has returned true
\* exactly when its last transaction is the one poll that saw it.
C6_TrueOnFirstReadyPoll ==
    /\ WaitPolling => ReadyPolls = {}
    /\ WaitReturned => (ret <=> ReadyPolls = {Len(bus)})

\* C6 witness: timeout 0, the first poll sees AVALID among other bits
C6_Witness ==
    /\ WaitReturned /\ ret
    /\ s_dataReadyTimeoutMs = 0
    /\ Cardinality(Polls) = 1
    /\ loc.status2 = 255

\* the timeouts the firmware configures: the default and the table's
ConfiguredTimeouts == {DefaultTimeoutMs, 50, 500, 800}

\* a poll has been made and every transaction of the wait was acknowledged,
\* none showing AVALID
NeverReady == Polls # {} /\ BusNeverFailed /\ ReadyPolls = {}

\* the time since the wait began, all 32 bits of it
Elapsed32 == Sub32(now, loc.start)

\* a poll is being issued: the time it starts at is the time of this state
PollStarts == pc = "wdr_poll" /\ pc' # "wdr_poll"

\* a poll starts before timeout_ms have elapsed
PollInTime ==
    (PollStarts /\ s_dataReadyTimeoutMs \in ConfiguredTimeouts) =>
        (Elapsed32.hi = 0 /\ Elapsed32.lo < s_dataReadyTimeoutMs)

\* a wait that never saw AVALID and had no bus failure has returned false,
\* the timeout elapsed
TimedOutFalse ==
    (WaitReturned /\ NeverReady /\ s_dataReadyTimeoutMs \in ConfiguredTimeouts)
        => (~ret /\ Elapsed16(now, loc.start) >= s_dataReadyTimeoutMs)

\* C7: if AVALID is never seen and no transaction fails, the wait terminates
\* with false and issues no STATUS2 poll that starts after timeout_ms have
\* elapsed since it began, for the timeouts 100, 50, 500 and 800 ms, under a
\* millisecond clock that keeps advancing.
C7_WaitTimesOut ==
    /\ [][PollInTime]_vars
    /\ [] TimedOutFalse
    /\ (pc = "wdr_poll") ~> WaitReturned

\* C7 witness: an 800 ms wait that began just before the clock wrapped has
\* timed out right at 800 ms
C7_Witness ==
    /\ WaitReturned /\ NeverReady /\ ~ret
    /\ s_dataReadyTimeoutMs = 800
    /\ loc.start = U32(Word16 - 1, Word16 - 2)
    /\ Elapsed32 = U32(0, 800)

----------------------------------------------------------------------------
(* SpecAcquire: one acquisition, while the sensor goes on measuring *)

InitAcquire ==
    InitWith({Sensor(Regs(0, 9), AS7343_DEVICE_ID, 0)},
             {ShortTimeoutMs}, {SPECTRO_PRECISION_MEDIUM})

NextAcquire ==
    \/ CallAcquire
    \/ spectro_app_acquire
    \/ AS7343_read_all_channels
    \/ AS7343_get_sorted_spectral_channels
    \/ AS7343_wait_data_ready
    \/ AS7343_set_reg_bank
    \/ SensorComplete

SpecAcquire == InitAcquire /\ [][NextAcquire]_vars

\* C2: whenever spectro_app_acquire returns true, meas.sorted[k] is
\* meas.raw[P[k]] for every k in 0..11, P = [12,6,0,7,8,15,1,2,9,13,14,3],
\* whatever the sensor's data registers did during the call.
C2_SortedDerivedFromRaw ==
    (Done("spectro_app_acquire") /\ ret) =>
        \A k \in 1 .. AS7343_NUM_SORTED_CHANNELS :
            buf.sorted[k] = buf.raw[DocumentedOrder[k] + 1]

----------------------------------------------------------------------------
(* SpecApp: acquisition and dispatch, with a short data-ready timeout and  *)
(* a host that may have sent a reply                                       *)

\* what the host may have sent: a reply line, a blank line with the start of
\* the next, an unfinished line
SerialSamples ==
    {<<"o", "k", "\n">>, <<" ", "\n", "o">>, <<"o", "k">>,
     <<"a", "\n", " ", "\n", "c", "\n">>}

\* the host sends while the firmware is between cycles
PcSends ==
    /\ Setter("host", 0)
    /\ serin = <<>>
    /\ serin' \in SerialSamples
    /\ UNCHANGED <<s_dataReadyTimeoutMs, s_appMode, s_precMode>>

InitApp ==
    InitWith({Sensor(Regs(0, 9), AS7343_DEVICE_ID, 0)},
             {ShortTimeoutMs}, Precisions)

NextApp ==
    \/ CallSetMode
    \/ CallRunOnce
    \/ PcSends
    \/ spectro_app_run_once
    \/ spectro_app_acquire
    \/ spectro_app_handle_data_log
    \/ spectro_app_handle_infer_local
    \/ spectro_app_handle_infer_pc
    \/ AS7343_read_all_channels
    \/ AS7343_get_sorted_spectral_channels
    \/ AS7343_wait_data_ready
    \/ AS7343_set_reg_bank

SpecApp == InitApp /\ [][NextApp]_vars

\* spectro_app_run_once has returned and its acquisition had failed: the
\* function returns nothing, ret still holds what spectro_app_acquire returned
AcquireFailed == Done("spectro_app_run_once") /\ ~ret

\* no handler ran, no serial input was read, the modes are as they were
CycleSkipped ==
    /\ \A k \in 1 .. Len(out) :
          out[k].text \notin {DataLogPrefix, InferLocalPrefix,
                              InferPcPrefix, PcResponsePrefix}
    /\ serin = call.rx
    /\ s_appMode = call.mode
    /\ s_precMode = call.prec

\* C10 as stated: when acquisition fails, spectro_app_run_once emits exactly
\* the one diagnostic line, invokes no handler, consumes no inbound serial
\* byte and leaves the application mode and the precision mode unchanged.
C10_ExactlyOneLine ==
    AcquireFailed => (out = <<AcquireErrorLine>> /\ CycleSkipped)

\* the bus adapter's own lines: one per short read
AdapterLines ==
    {ShortReadLine(len, n) : len \in 1 .. 2, n \in 0 .. 1}

\* C10 amended: when acquisition fails, spectro_app_run_once emits the
\* diagnostic line exactly once, as its last line, preceded by nothing but
\* the bus adapter's one line when the failure was a short read; it invokes
\* no handler, consumes no inbound serial byte and leaves the application
\* mode and the precision mode unchanged.
C10_DiagnosticAfterAdapterLine ==
    AcquireFailed =>
        /\ \/ out = <<AcquireErrorLine>>
           \/ \E l \in AdapterLines : out = <<l, AcquireErrorLine>>
        /\ (Len(out) = 2) <=> (\E i \in 1 .. Len(bus) : bus[i].op = "req" /\ ~bus[i].ok)
        /\ CycleSkipped

\* C10 witness: in infer-pc mode with a reply pending, the second read of the
\* cycle was cut short in its last burst
C10_Witness ==
    /\ AcquireFailed
    /\ s_appMode = SPECTRO_APP_MODE_INFER_PC
    /\ serin = <<"o", "k", "\n">>
    /\ Cardinality(DataPtrs) = 2 * AS7343_NUM_CHANNELS
    /\ out = <<ShortReadLine(2, 1), AcquireErrorLine>>

\* ---------------------------------------------------------------------------
\* One handler per completed cycle

MeasurementPrefixes == {DataLogPrefix, InferLocalPrefix, InferPcPrefix}

\* the record prefix the interface documents for each mode
ModePrefix(mode) ==
    CASE mode = SPECTRO_APP_MODE_DATA_LOG -> DataLogPrefix
      [] mode = SPECTRO_APP_MODE_INFER_LOCAL -> InferLocalPrefix
      [] mode = SPECTRO_APP_MODE_INFER_PC -> InferPcPrefix

CycleCompleted == Done("spectro_app_run_once") /\ ret

MeasurementRecords == {k \in 1 .. Len(out) : out[k].text \in MeasurementPrefixes}

\* C11: a cycle of spectro_app_run_once whose acquisition succeeded has
\* emitted exactly one measurement record, it is the first line of the cycle,
\* and its prefix is the one of the mode the cycle ran in (SORTED for data-log,
\* the stub line for infer-local, MEAS for infer-pc) and of no other mode
C11_OneRecordOfCurrentMode ==
    CycleCompleted =>
        /\ s_appMode = call.mode
        /\ MeasurementRecords = {1}
        /\ out[1].text = ModePrefix(call.mode)
        /\ \A k \in 2 .. Len(out) : out[k].text = PcResponsePrefix

C11_Witness ==
    /\ CycleCompleted
    /\ call.mode = SPECTRO_APP_MODE_INFER_LOCAL
    /\ Len(out) = 1
    /\ out[1].text = InferLocalPrefix

\* ---------------------------------------------------------------------------
\* The text of the measurement records: each handler called on a measurement

SortedExample == <<5, 10, 15, 20, 25, 30, 35, 40, 45, 50, 55, 60>>

\* measurements whose values have one to five digits, zero and 65535 included
SortedSamples ==
    {SortedExample,
     [k \in 1 .. AS7343_NUM_SORTED_CHANNELS |-> 0],
     [k \in 1 .. AS7343_NUM_SORTED_CHANNELS |-> Word16 - 1],
     <<0, 9, 10, 99, 100, 999, 1000, 9999, 10000, 65535, 7, 42>>}

\* the harness calls the handler of a mode on a measurement
CallHandler ==
    \E mode \in Modes, sorted \in SortedSamples :
        /\ pc = "done"
        /\ stack = <<>>
        /\ pc' = Handler(mode)
        /\ stack' = <<"done">>
        /\ call' = [fn |-> "spectro_app_handle", arg |-> mode, mode |-> s_appMode,
                    prec |-> s_precMode, rx |-> serin]
        /\ dev' = [dev EXCEPT !.gen = 0]
        /\ pre' = dev'
        /\ loc' = LocInit
        /\ buf' = [StaleBuf EXCEPT !.sorted = sorted]
        /\ bus' = <<>>
        /\ out' = <<>>
        /\ ret' = FALSE
        /\ UNCHANGED <<s_dataReadyTimeoutMs, s_appMode, s_precMode, serin, now>>

InitFormat ==
    InitWith({Sensor(Regs(0, 9), AS7343_DEVICE_ID, 0)},
             {DefaultTimeoutMs}, {SPECTRO_PRECISION_MEDIUM})

NextFormat ==
    \/ CallHandler
    \/ PcSends
    \/ spectro_app_handle_data_log
    \/ spectro_app_handle_infer_local
    \/ spectro_app_handle_infer_pc

SpecFormat == InitFormat /\ [][NextFormat]_vars

Commas(s) == {k \in 1 .. Len(s) : s[k] = ","}

\* the fields of s between its commas
RECURSIVE Fields(_)
Fields(s) ==
    IF Commas(s) = {}
    THEN <<s>>
    ELSE LET k == CHOOSE c \in Commas(s) : \A d \in Commas(s) : c <= d
         IN  <<SubSeq(s, 1, k - 1)>> \o Fields(SubSeq(s, k + 1, Len(s)))

DigitValue(c) ==
    CASE c = "0" -> 0 [] c = "1" -> 1 [] c = "2" -> 2 [] c = "3" -> 3
      [] c = "4" -> 4 [] c = "5" -> 5 [] c = "6" -> 6 [] c = "7" -> 7
      [] c = "8" -> 8 [] c = "9" -> 9

IsDigit(c) == c \in {"0", "1", "2", "3", "4", "5", "6", "7", "8", "9"}

\* a decimal integer: digits only, at least one, no leading zero
IsDecimal(f) ==
    /\ Len(f) >= 1
    /\ \A k \in 1 .. Len(f) : IsDigit(f[k])
    /\ Len(f) > 1 => f[1] # "0"

RECURSIVE DecimalValue(_)
DecimalValue(f) ==
    IF f = <<>>
    THEN 0
    ELSE 10 * DecimalValue(SubSeq(f, 1, Len(f) - 1)) + DigitValue(f[Len(f)])

ExampleText ==
    <<"5", ",", "1", "0", ",", "1", "5", ",", "2", "0", ",", "2", "5", ",",
      "3", "0", ",", "3", "5", ",", "4", "0", ",", "4", "5", ",", "5", "0", ",",
      "5", "5", ",", "6", "0">>

HandlerReturned == Done("spectro_app_handle")

\* C12: the record a handler emits is its fixed prefix followed by the 12
\* sorted values in index order as decimal integers, separated by exactly 11
\* commas with no trailing comma, as one terminated line; for the values
\* 5,10,...,60 the text after the prefix is 5,10,15,20,25,30,35,40,45,50,55,60
C12_RecordText ==
    HandlerReturned =>
        /\ Len(out) >= 1
        /\ out[1].text = ModePrefix(call.arg)
        /\ Cardinality(Commas(out[1].str)) = AS7343_NUM_SORTED_CHANNELS - 1
        /\ Len(Fields(out[1].str)) = AS7343_NUM_SORTED_CHANNELS
        /\ \A k \in 1 .. AS7343_NUM_SORTED_CHANNELS :
              /\ IsDecimal(Fields(out[1].str)[k])
              /\ DecimalValue(Fields(out[1].str)[k]) = buf.sorted[k]
        /\ buf.sorted = SortedExample => out[1].str = ExampleText

C12_Witness ==
    /\ HandlerReturned
    /\ call.arg = SPECTRO_APP_MODE_INFER_PC
    /\ buf.sorted = SortedExample
    /\ out = <<[text |-> "MEAS,", args |-> <<>>, str |-> ExampleText]>>

\* ---------------------------------------------------------------------------
\* The reply check of infer-pc mode

InferPcCycle == CycleCompleted /\ call.mode = SPECTRO_APP_MODE_INFER_PC

Responses == {k \in 1 .. Len(out) : out[k].text = PcResponsePrefix}

\* C13: in infer-pc mode the MEAS record is emitted before any inbound byte
\* is looked at; the cycle emits a PC response record iff inbound data was
\* available and the line read is non-empty after trimming, and the record
\* carries the trimmed line; with no inbound data the cycle emits the MEAS
\* record only, consumes nothing and never waits for input
C13_ReplyAfterRecord ==
    /\ pc = "h_infer_pc" => (serin = call.rx /\ out = <<>>)
    /\ pc = "h_pc_reply" => (serin = call.rx /\ out = <<InferPcLine(buf.sorted)>>)
    /\ pc = "h_pc_wait" => (call.rx # <<>> /\ out = <<InferPcLine(buf.sorted)>>)
    /\ InferPcCycle =>
          /\ out[1] = InferPcLine(buf.sorted)
          /\ Responses # {} <=> (call.rx # <<>> /\ Trim(loc.line) # <<>>)
          /\ Responses # {} => out = <<out[1], PcResponseLine(Trim(loc.line))>>
          /\ NewlineAt(call.rx) <= Len(call.rx) => loc.line = ReadLine(call.rx)
          /\ call.rx = <<>> => (out = <<out[1]>> /\ serin = <<>>)

C13_Witness ==
    /\ InferPcCycle
    /\ call.rx = <<"o", "k", "\n">>
    /\ out = <<InferPcLine(buf.sorted), PcResponseLine(<<"o", "k">>)>>
    /\ serin = <<>>

\* ---------------------------------------------------------------------------
\* One inbound line per cycle

CompleteLines(rx) == Cardinality({k \in 1 .. Len(rx) : rx[k] = "\n"})

\* rx is the line of characters before position k, its newline at k
OldestEndsAt(rx, k) == rx[k] = "\n" /\ \A j \in 1 .. (k - 1) : rx[j] # "\n"

\* the original statement of C14: with two or more complete lines pending,
\* the cycle consumes exactly the oldest and echoes it, so that no inbound
\* line is dropped
C14_EveryLineEchoed ==
    (InferPcCycle /\ CompleteLines(call.rx) >= 2) =>
        \E k \in 1 .. Len(call.rx) :
            /\ OldestEndsAt(call.rx, k)
            /\ serin = SubSeq(call.rx, k + 1, Len(call.rx))
            /\ Cardinality(Responses) = 1

\* C14: a cycle emits at most one PC response; with complete lines pending
\* an infer-pc cycle consumes exactly the oldest one, the others stay
\* buffered in their order, and the line is echoed, trimmed, exactly when it
\* is non-empty after trimming (a blank line is consumed without an echo);
\* a cycle of another mode or a failed cycle consumes nothing
C14_OldestLineOnly ==
    Done("spectro_app_run_once") =>
        /\ Cardinality(Responses) <= 1
        /\ ~InferPcCycle => (serin = call.rx /\ Responses = {})
        /\ (InferPcCycle /\ CompleteLines(call.rx) >= 1) =>
              \E k \in 1 .. Len(call.rx) :
                  /\ OldestEndsAt(call.rx, k)
                  /\ serin = SubSeq(call.rx, k + 1, Len(call.rx))
                  /\ IF Trim(SubSeq(call.rx, 1, k - 1)) # <<>>
                     THEN out = <<out[1],
                                  PcResponseLine(Trim(SubSeq(call.rx, 1, k - 1)))>>
                     ELSE Responses = {}

C14_Witness ==
    /\ InferPcCycle
    /\ call.rx = <<" ", "\n", "c", "\n">>
    /\ serin = <<"c", "\n">>
    /\ Responses = {}

\* ---------------------------------------------------------------------------
\* The result of AS7343_is_connected

\* the three transactions of a bank switch that starts at position k of the
\* log all went through: pointer write, request and write of CFG0
SwitchOkAt(k) ==
    /\ Len(bus) >= k + 2
    /\ \A j \in k .. (k + 2) : bus[j].reg = AS7343_REG_CFG0 /\ bus[j].ok
    /\ bus[k].op = "ptr" /\ bus[k + 1].op = "req" /\ bus[k + 2].op = "wr"

\* the identity register was read and held the device identity
IdentityRead ==
    \E k \in RequestsOf(AS7343_REG_ID) :
        bus[k].ok /\ bus[k].data = <<AS7343_DEVICE_ID>>

\* C16: AS7343_is_connected returns true iff the switch to bank 1 succeeded,
\* the read of the identity register succeeded with the value 0x81, and the
\* switch back to bank 0 succeeded; so a failed switch makes it return false
\* even when the identity read was 0x81
C16_ConnectedIff ==
    Done("AS7343_is_connected") =>
        (ret <=> (SwitchOkAt(1) /\ IdentityRead /\ SwitchOkAt(6)))

C16_Witness ==
    /\ Done("AS7343_is_connected")
    /\ ~ret
    /\ SwitchOkAt(1)
    /\ IdentityRead
    /\ ~SwitchOkAt(6)

\* ---------------------------------------------------------------------------
\* SpecTime: AS7343_set_integration_time over the corners of its ranges

\* uint8_t atime: both ends and a value in between
AtimeSamples == {0, 29, 255}

\* uint16_t astep: both ends, both sides of the byte boundary, the values of
\* the precision table and one whose bytes differ (0x1234)
AstepSamples == {0, 255, 256, 999, 4660, 65534, 65535}

CallSetIntegrationTime ==
    \E atime \in AtimeSamples, astep \in AstepSamples :
        Enter("AS7343_set_integration_time", 0, "sit_entry",
              [LocInit EXCEPT !.atime = atime, !.astep = astep])

InitTime ==
    InitWith({Sensor(Regs(c, 9), AS7343_DEVICE_ID, 0) : c \in {0, 181}},
             {DefaultTimeoutMs}, {SPECTRO_PRECISION_MEDIUM})

NextTime ==
    \/ CallSetIntegrationTime
    \/ AS7343_set_integration_time
    \/ AS7343_set_reg_bank

SpecTime == InitTime /\ [][NextTime]_vars

\* the writes of the current call that the sensor acknowledged, in order
AckedWrites == SelectSeq(bus, LAMBDA t : t.op = "wr" /\ t.ok)

\* C17: a successful AS7343_set_integration_time(atime, astep) leaves ATIME
\* equal to atime, ASTEP_L to astep mod 256 and ASTEP_H to astep div 256, so
\* that ASTEP_L + 256 * ASTEP_H = astep; its writes are the bank switch to
\* bank 0, then ATIME, ASTEP_L, ASTEP_H in this order; and no value of atime
\* or astep is rejected: the call fails only when a bus transaction fails
C17_IntegrationTimeRoundTrip ==
    Done("AS7343_set_integration_time") =>
        /\ BusNeverFailed => ret
        /\ ret =>
              /\ dev.reg[AS7343_REG_ATIME] = loc.atime
              /\ dev.reg[AS7343_REG_ASTEP_L] = loc.astep % 256
              /\ dev.reg[AS7343_REG_ASTEP_H] = loc.astep \div 256
              /\ dev.reg[AS7343_REG_ASTEP_L] + 256 * dev.reg[AS7343_REG_ASTEP_H]
                    = loc.astep
              /\ DevBank(dev) = 0
              /\ [k \in 1 .. Len(AckedWrites) |-> AckedWrites[k].reg]
                    = <<AS7343_REG_CFG0, AS7343_REG_ATIME, AS7343_REG_ASTEP_L,
                        AS7343_REG_ASTEP_H>>
              /\ bus[Len(bus)].reg = AS7343_REG_ASTEP_H

C17_Witness ==
    /\ Done("AS7343_set_integration_time")
    /\ ret
    /\ loc.atime = 255
    /\ loc.astep = 4660
    /\ dev.reg[AS7343_REG_ASTEP_L] = 52
    /\ dev.reg[AS7343_REG_ASTEP_H] = 18
    /\ pre.reg[AS7343_REG_ASTEP_H] = 255

\* ---------------------------------------------------------------------------
\* One AS7343_i2c_read: the transactions it issues and what a failure leaves

\* a step in which the thread performed one AS7343_i2c_read
ReadStep ==
    /\ Len(bus') > Len(bus)
    /\ SubSeq(bus', 1, Len(bus)) = bus
    /\ bus'[Len(bus) + 1].op = "ptr"

\* the transactions a step added to the log
Issued == SubSeq(bus', Len(bus) + 1, Len(bus'))

ReadShape ==
    /\ Len(Issued) \in {1, 2}
    /\ Issued[1].op = "ptr"
    /\ ~Issued[1].ok => Len(Issued) = 1
    /\ Issued[1].ok =>
          /\ Len(Issued) = 2
          /\ Issued[2].op = "req"
          /\ Issued[2].reg = Issued[1].reg
          /\ Issued[2].ok <=> (Issued[2].n = Issued[2].len)
          /\ Issued[2].ok => Len(Issued[2].data) = Issued[2].len

ReadFailed == ~Issued[Len(Issued)].ok

\* C18: AS7343_i2c_read issues the register-pointer write and then at most
\* one burst request for the same register; a NACKed pointer write is
\* followed by no request; the read fails exactly when the pointer write
\* fails or the request returns a number of bytes other than the one asked
\* for, and then the caller gets false, none of the caller's bytes or
\* variables is changed and nothing is issued again; a read that succeeds
\* received exactly the requested number of bytes
C18_ReadAllOrNothing ==
    [][ReadStep =>
         /\ ReadShape
         /\ ReadFailed => (ret' = FALSE /\ pc' = Head(stack) /\ buf' = buf
                           /\ loc' = loc /\ dev' = dev)
         /\ ~ReadFailed => (pc' # Head(stack) \/ ret')]_vars

C18_Witness ==
    /\ Done("AS7343_read_all_channels")
    /\ ~ret
    /\ Len(bus) >= 2
    /\ bus[Len(bus)].op = "req" /\ bus[Len(bus)].len = 2 /\ bus[Len(bus)].n = 1
    /\ bus[Len(bus) - 1].op = "ptr" /\ bus[Len(bus) - 1].ok
    /\ bus[Len(bus)].reg = AS7343_REG_DATA0_L + 2
    /\ buf.raw[1] = 0
    /\ buf.raw[2] = StaleVal(2)

\* ---------------------------------------------------------------------------
\* SpecModes: the two setters of the application layer

InitModes ==
    InitWith({Sensor(Regs(0, 9), AS7343_DEVICE_ID, 0)},
             {DefaultTimeoutMs}, {SPECTRO_PRECISION_MEDIUM})

NextModes ==
    \/ CallSetMode
    \/ CallSetPrecision
    \/ spectro_app_set_precision_mode
    \/ AS7343_set_integration_time
    \/ AS7343_set_reg_bank

SpecModes == InitModes /\ [][NextModes]_vars

\* a step that is a call of spectro_app_set_mode
SetModeStep == pc = "done" /\ pc' = "done" /\ call'.fn = "spectro_app_set_mode"

\* a step of (or into) a call of spectro_app_set_precision_mode
SetPrecisionStep == call'.fn = "spectro_app_set_precision_mode"

\* between calls, either setter can be called with each of its three values
EverySettingOffered ==
    pc = "done" =>
        /\ \A m \in Modes : ENABLED (CallSetMode /\ s_appMode' = m)
        /\ \A p \in Precisions : ENABLED (CallSetPrecision /\ loc'.prec = p)

\* C19: spectro_app_set_mode stores the mode and changes nothing else (the
\* precision, the data-ready timeout and every sensor register are as
\* before and no bus transaction is issued); spectro_app_set_precision_mode
\* stores the precision, whatever the bus does, and never changes the mode;
\* and from every state either setter accepts each of its three values, so
\* all 9 (mode, precision) combinations are reached by calls of the two
C19_ModeAndPrecisionIndependent ==
    /\ [][SetModeStep =>
            /\ s_appMode' = call'.arg
            /\ s_precMode' = s_precMode
            /\ s_dataReadyTimeoutMs' = s_dataReadyTimeoutMs
            /\ dev'.reg = dev.reg
            /\ bus' = <<>>]_vars
    /\ [][SetPrecisionStep => s_appMode' = s_appMode]_vars
    /\ [](Done("spectro_app_set_precision_mode") =>
            (s_precMode = call.arg /\ s_appMode = call.mode))
    /\ []EverySettingOffered

C19_Witness ==
    /\ Done("spectro_app_set_precision_mode")
    /\ call.prec = SPECTRO_PRECISION_HIGH
    /\ s_precMode = SPECTRO_PRECISION_LOW
    /\ s_appMode = SPECTRO_APP_MODE_INFER_PC
    /\ ~ret

\* ---------------------------------------------------------------------------
\* The result of AS7343_get_sorted_spectral_channels

\* the step the thread takes after its AS7343_read_all_channels call has
\* returned ret
ReadAllReturned == pc = "gs_copy" /\ pc' # pc

GoodBursts == {i \in DataPtrs : BurstOk(i)}

\* C20: AS7343_get_sorted_spectral_channels, called with a buffer, returns
\* what its AS7343_read_all_channels call returned (false iff that returned
\* false, which is iff not all 18 bursts were read), and when that is false
\* none of the 12 output slots is written
C20_SortedFailsWithRead ==
    /\ [][ReadAllReturned =>
            /\ pc' = "done"
            /\ ret' = ret
            /\ ~ret => buf'.sorted = buf.sorted]_vars
    /\ [](Done("AS7343_get_sorted_spectral_channels") =>
            /\ ret <=> (Cardinality(GoodBursts) = AS7343_NUM_CHANNELS)
            /\ ~ret => buf.sorted = StaleBuf.sorted)

C20_Witness ==
    /\ Done("AS7343_get_sorted_spectral_channels")
    /\ ~ret
    /\ Cardinality(GoodBursts) = AS7343_NUM_CHANNELS - 1
    /\ buf.tmp[AS7343_NUM_CHANNELS - 1] # StaleBuf.tmp[AS7343_NUM_CHANNELS - 1]
    /\ buf.sorted = StaleBuf.sorted

----------------------------------------------------------------------------
(* AS7343_init(): bank 0, power on, automatic 18-channel cycling, gain 16x, *)
(* spectral measurement on; it gives up at the first failed transaction     *)

AS7343_GAIN_16X == 5

init_entry ==
    /\ pc = "init_entry"
    /\ loc' = [loc EXCEPT !.bank = AS7343_REG_BANK_0, !.enable = 0, !.cfg20 = 0]
    /\ CallTo("srb_read", "init_pon_read")
    /\ UNCHANGED <<dev, s_dataReadyTimeoutMs, s_appMode, s_precMode, ret, buf,
                   bus, out, serin, now, call, pre>>

\* a read of register a into the local named by dst, after a call that
\* returned ret: on to label next, or return false
InitRead8(a, dst, next) ==
    IF ~ret
    THEN /\ Return(FALSE)
         /\ UNCHANGED <<loc, bus, out, now>>
    ELSE \E r \in AS7343_i2c_read_reg(dev, a) :
           /\ BusRead(r)
           /\ IF r.ok
              THEN /\ loc' = [loc EXCEPT ![dst] = r.data[1]]
                   /\ Goto(next)
                   /\ UNCHANGED ret
              ELSE /\ Return(FALSE)
                   /\ UNCHANGED loc

init_pon_read ==
    /\ pc = "init_pon_read"
    /\ InitRead8(AS7343_REG_ENABLE, "enable", "init_pon_write")
    /\ UNCHANGED <<dev, s_dataReadyTimeoutMs, s_appMode, s_precMode, buf,
                   serin, call, pre>>

\* enable |= 0x01, written back; then delay(3)
init_pon_write ==
    /\ pc = "init_pon_write"
    /\ LET v == BitOr(loc.enable, 1)
       IN  \E w \in AS7343_i2c_write_reg(dev, AS7343_REG_ENABLE, v) :
             /\ BusWrite(w)
             /\ loc' = [loc EXCEPT !.enable = v]
             /\ IF w.ok
                THEN Goto("init_smux_read") /\ UNCHANGED ret
                ELSE Return(FALSE)
    /\ UNCHANGED <<s_dataReadyTimeoutMs, s_appMode, s_precMode, buf, out,
                   serin, call, pre>>

init_smux_read ==
    /\ pc = "init_smux_read"
    /\ InitRead8(AS7343_REG_CFG20, "cfg20", "init_smux_write")
    /\ UNCHANGED <<dev, s_dataReadyTimeoutMs, s_appMode, s_precMode, buf,
                   serin, call, pre>>

\* mutant: the field is placed one bit lower
init_smux_write_Shift4 ==
    /\ pc = "init_smux_write"
    /\ LET v == BitOr(BitAnd(loc.cfg20, Not8(3 * 2 ^ 4)), 3 * 2 ^ 4)
       IN  \E w \in AS7343_i2c_write_reg(dev, AS7343_REG_CFG20, v) :
             /\ BusWrite(w)
             /\ loc' = [loc EXCEPT !.cfg20 = v, !.gain = AS7343_GAIN_16X]
             /\ IF w.ok
                THEN CallTo("sg_entry", "init_spen_read") /\ UNCHANGED ret
                ELSE Return(FALSE)
    /\ UNCHANGED <<s_dataReadyTimeoutMs, s_appMode, s_precMode, buf, out,
                   serin, call, pre>>

\* cfg20 &= ~(0x3 << 5); cfg20 |= (0x3 << 5), written back; then
\* AS7343_set_gain(AS7343_GAIN_16X)
init_smux_write ==
    /\ pc = "init_smux_write"
    /\ LET v == BitOr(BitAnd(loc.cfg20, Not8(3 * 2 ^ 5)), 3 * 2 ^ 5)
       IN  \E w \in AS7343_i2c_write_reg(dev, AS7343_REG_CFG20, v) :
             /\ BusWrite(w)
             /\ loc' = [loc EXCEPT !.cfg20 = v, !.gain = AS7343_GAIN_16X]
             /\ IF w.ok
                THEN CallTo("sg_entry", "init_spen_read") /\ UNCHANGED ret
                ELSE Return(FALSE)
    /\ UNCHANGED <<s_dataReadyTimeoutMs, s_appMode, s_precMode, buf, out,
                   serin, call, pre>>

\* mutant: the result of AS7343_set_gain is not looked at
init_spen_read_Unchecked ==
    /\ pc = "init_spen_read"
    /\ \E r \in AS7343_i2c_read_reg(dev, AS7343_REG_ENABLE) :
         /\ BusRead(r)
         /\ IF r.ok
            THEN /\ loc' = [loc EXCEPT !.enable = r.data[1]]
                 /\ Goto("init_spen_write")
                 /\ UNCHANGED ret
            ELSE /\ Return(FALSE)
                 /\ UNCHANGED loc
    /\ UNCHANGED <<dev, s_dataReadyTimeoutMs, s_appMode, s_precMode, buf,
                   serin, call, pre>>

init_spen_read ==
    /\ pc = "init_spen_read"
    /\ InitRead8(AS7343_REG_ENABLE, "enable", "init_spen_write")
    /\ UNCHANGED <<dev, s_dataReadyTimeoutMs, s_appMode, s_precMode, buf,
                   serin, call, pre>>

\* enable |= 0x02, written back
init_spen_write ==
    /\ pc = "init_spen_write"
    /\ LET v == BitOr(loc.enable, 2)
       IN  \E w \in AS7343_i2c_write_reg(dev, AS7343_REG_ENABLE, v) :
             /\ BusWrite(w)
             /\ loc' = [loc EXCEPT !.enable = v]
             /\ Return(w.ok)
    /\ UNCHANGED <<s_dataReadyTimeoutMs, s_appMode, s_precMode, buf, out,
                   serin, call, pre>>

AS7343_init ==
    \/ init_entry
    \/ init_pon_read
    \/ init_pon_write
    \/ init_smux_read
    \/ init_smux_write
    \/ init_spen_read
    \/ init_spen_write

----------------------------------------------------------------------------
(* main.cpp: setup() and loop().  Here out holds the lines printed since   *)
(* reset or since the current pass of a while (1) loop began, and bus the  *)
(* transactions of the same span.                                           *)

NotFoundLine == Line("AS7343 Not Found!", <<>>)

ConnectedLine == Line("AS7343 Connected!", <<>>)

\* a statement of setup or loop that calls a function: the locals of the
\* call before are dead, the log of transactions starts again
TopCall(entry, back, l) ==
    /\ CallTo(entry, back)
    /\ loc' = l
    /\ bus' = <<>>

\* Serial.begin(115200); oled_ssd1306_setup(); AS7343_init();
setup_begin ==
    /\ pc = "setup"
    /\ TopCall("init_entry", "setup_probe", LocInit)
    /\ UNCHANGED <<dev, s_dataReadyTimeoutMs, s_appMode, s_precMode, ret, buf,
                   out, serin, now, call, pre>>

\* mutant: a failed AS7343_init is treated like a sensor that is not found
setup_probe_ChecksInit ==
    /\ pc = "setup_probe"
    /\ IF ~ret
       THEN /\ Goto("setup_not_found")
            /\ UNCHANGED <<loc, bus>>
       ELSE TopCall("ic_bank1", "setup_check", LocInit)
    /\ UNCHANGED <<dev, s_dataReadyTimeoutMs, s_appMode, s_precMode, ret, buf,
                   out, serin, now, call, pre>>

\* the result of AS7343_init is dropped; AS7343_is_connected()
setup_probe ==
    /\ pc = "setup_probe"
    /\ TopCall("ic_bank1", "setup_check", LocInit)
    /\ UNCHANGED <<dev, s_dataReadyTimeoutMs, s_appMode, s_precMode, ret, buf,
                   out, serin, now, call, pre>>

\* mutant: a sensor that is not found is reported once and setup goes on
setup_check_GoesOn ==
    /\ pc = "setup_check"
    /\ out' = IF ~ret
              THEN out \o <<NotFoundLine, ConnectedLine>>
              ELSE Append(out, ConnectedLine)
    /\ TopCall("ai_entry", "setup_mode", LocInit)
    /\ UNCHANGED <<dev, s_dataReadyTimeoutMs, s_appMode, s_precMode, ret, buf,
                   serin, now, call, pre>>

\* if (!AS7343_is_connected()) while (1) ...; Serial.println("AS7343
\* Connected!"); spectro_app_init();
setup_check ==
    /\ pc = "setup_check"
    /\ IF ~ret
       THEN /\ Goto("setup_not_found")
            /\ UNCHANGED <<out, loc, bus>>
       ELSE /\ out' = Append(out, ConnectedLine)
            /\ TopCall("ai_entry", "setup_mode", LocInit)
    /\ UNCHANGED <<dev, s_dataReadyTimeoutMs, s_appMode, s_precMode, ret, buf,
                   serin, now, call, pre>>

\* one pass of the while (1) of setup: Serial.println("AS7343 Not Found!")
setup_not_found ==
    /\ pc = "setup_not_found"
    /\ out' = <<NotFoundLine>>
    /\ bus' = <<>>
    /\ loc' = LocInit
    /\ Goto("setup_delay")
    /\ UNCHANGED <<dev, s_dataReadyTimeoutMs, s_appMode, s_precMode, ret, buf,
                   serin, now, call, pre>>

\* delay(500), and round again
setup_delay ==
    /\ pc = "setup_delay"
    /\ Goto("setup_not_found")
    /\ UNCHANGED <<dev, s_dataReadyTimeoutMs, s_appMode, s_precMode, ret, loc,
                   buf, bus, out, serin, now, call, pre>>

\* mutant: setup leaves the application in infer-local mode
setup_mode_InferLocal ==
    /\ pc = "setup_mode"
    /\ spectro_app_set_mode(SPECTRO_APP_MODE_INFER_LOCAL)
    /\ TopCall("spm_entry", "setup_exit",
               [LocInit EXCEPT !.prec = SPECTRO_PRECISION_HIGH])
    /\ UNCHANGED <<dev, s_dataReadyTimeoutMs, s_precMode, ret, buf, out,
                   serin, now, call, pre>>

\* spectro_app_set_mode(SPECTRO_APP_MODE_DATA_LOG);
\* spectro_app_set_precision_mode(SPECTRO_PRECISION_HIGH);
setup_mode ==
    /\ pc = "setup_mode"
    /\ spectro_app_set_mode(SPECTRO_APP_MODE_DATA_LOG)
    /\ TopCall("spm_entry", "setup_exit",
               [LocInit EXCEPT !.prec = SPECTRO_PRECISION_HIGH])
    /\ UNCHANGED <<dev, s_dataReadyTimeoutMs, s_precMode, ret, buf, out,
                   serin, now, call, pre>>

\* setup returns and the core calls loop: oled_draw_start_go();
\* oled_show_mode();
setup_exit ==
    /\ pc = "setup_exit"
    /\ Goto("loop")
    /\ UNCHANGED <<dev, s_dataReadyTimeoutMs, s_appMode, s_precMode, ret, loc,
                   buf, bus, out, serin, now, call, pre>>

setup ==
    \/ setup_begin
    \/ setup_probe
    \/ setup_check
    \/ setup_not_found
    \/ setup_delay
    \/ setup_mode
    \/ setup_exit

\* one pass of the while (1) of loop: spectro_app_run_once() on a fresh meas
loop ==
    /\ pc = "loop"
    /\ out' = <<>>
    /\ buf' = StaleBuf
    /\ TopCall("ro_entry", "loop", LocInit)
    /\ UNCHANGED <<dev, s_dataReadyTimeoutMs, s_appMode, s_precMode, ret,
                   serin, now, call, pre>>

\* the board after reset: a sensor that answers with the AS7343 identity or
\* with another one, its registers at their power-on values
Init ==
    /\ dev \in {Sensor(Regs(0, 9), id, 0) : id \in IdSamples}
    /\ pre = dev
    /\ s_dataReadyTimeoutMs = DefaultTimeoutMs
    /\ s_appMode = SPECTRO_APP_MODE_DATA_LOG
    /\ s_precMode = SPECTRO_PRECISION_MEDIUM
    /\ pc = "setup"
    /\ stack = <<>>
    /\ ret = FALSE
    /\ loc = LocInit
    /\ buf = StaleBuf
    /\ bus = <<>>
    /\ out = <<>>
    /\ serin = <<>>
    /\ now = U32(0, 0)
    /\ call = NoCall

\* the sensor of the board: a poll that finds no data ready is not followed
\* by another such poll, so a wait ends with its second poll at the latest
SensorPrompt == (pc = "wdr_poll" /\ pc' = "wdr_check") => bus' # bus

Next ==
    \/ setup
    \/ loop
    \/ AS7343_init
    \/ AS7343_is_connected
    \/ AS7343_set_reg_bank
    \/ AS7343_set_gain
    \/ AS7343_set_integration_time
    \/ AS7343_wait_data_ready /\ SensorPrompt
    \/ AS7343_read_all_channels
    \/ AS7343_get_sorted_spectral_channels
    \/ spectro_app_init
    \/ spectro_app_set_precision_mode
    \/ spectro_app_run_once
    \/ spectro_app_acquire
    \/ spectro_app_handle_data_log

Spec == Init /\ [][Next]_vars

\* the one thread of the firmware always takes its next step
SpecLive == Spec /\ WF_vars(Next)

\* ---------------------------------------------------------------------------
\* The start-up diagnostic

\* the statement of setup or loop that is running or called the running code
Statement == IF stack = <<>> THEN pc ELSE stack[Len(stack)]

\* how far the firmware has come: AS7343_init, AS7343_is_connected, the
\* check, then either the not-found loop or the application set-up and loop
Progress ==
    CASE Statement = "setup" -> 0
      [] Statement = "setup_probe" -> 1
      [] Statement = "setup_check" -> 2
      [] Statement \in {"setup_not_found", "setup_delay"} -> 3
      [] Statement = "setup_mode" -> 4
      [] Statement = "setup_exit" -> 5
      [] Statement = "loop" -> 6

NotFoundLoop == pc \in {"setup_not_found", "setup_delay"}

Count(line) == Cardinality({k \in 1 .. Len(out) : out[k] = line})

\* what each stretch of the run has printed
StartupOutput ==
    /\ Progress <= 2 =>
          /\ Count(ConnectedLine) = 0 /\ Count(NotFoundLine) = 0
          /\ MeasurementRecords = {}
    /\ Progress = 3 =>
          /\ Count(ConnectedLine) = 0 /\ MeasurementRecords = {}
          /\ stack = <<>>
          /\ pc = "setup_delay" => out = <<NotFoundLine>>
    /\ Progress \in {4, 5} =>
          /\ Count(ConnectedLine) = 1 /\ Count(NotFoundLine) = 0
          /\ MeasurementRecords = {}
    /\ (Progress = 6 /\ stack # <<>>) =>
          /\ Count(ConnectedLine) = 0 /\ Count(NotFoundLine) = 0

\* C15: setup enters the not-found loop exactly when AS7343_is_connected
\* returned false, and then never leaves it: it prints AS7343 Not Found!
\* again and again, never prints AS7343 Connected! and never reaches
\* spectro_app_init, the two setters or spectro_app_run_once.  When
\* AS7343_is_connected returned true, AS7343 Connected! is printed once, at
\* the check, AS7343 Not Found! never, and no measurement record is printed
\* before it: records come only from the passes of loop, after setup
C15_StartupDiagnostic ==
    /\ [][/\ Progress' >= Progress
          /\ NotFoundLoop => NotFoundLoop'
          /\ pc = "setup_check" => (NotFoundLoop' <=> ~ret)
          /\ Count(ConnectedLine)' > Count(ConnectedLine) =>
                (pc = "setup_check" /\ ret /\ Progress' = 4)]_vars
    /\ []StartupOutput
    /\ (pc = "setup_not_found") ~> (pc = "setup_delay" /\ out = <<NotFoundLine>>)
    /\ (pc = "setup_delay") ~> (pc = "setup_not_found")

C15_Witness ==
    /\ pc = "setup_delay"
    /\ out = <<NotFoundLine>>
    /\ dev.id = AS7343_DEVICE_ID
    /\ DevBank(dev) = 1

----------------------------------------------------------------------------
(* SpecInit: AS7343_init called on sensors whose ENABLE, CFG20, CFG0 and   *)
(* CFG1 hold other bits already                                             *)

CallInit == Enter("AS7343_init", 0, "init_entry", LocInit)

\* register contents before the call: all clear, or the bits the call does
\* not own set (bank bit set in CFG0, gain 9 or all of CFG1 set)
InitSensors ==
    {Sensor([Regs(c[1], c[2]) EXCEPT ![AS7343_REG_ENABLE] = c[3],
                                     ![AS7343_REG_CFG20] = c[4]],
            AS7343_DEVICE_ID, 0) :
        c \in {<<0, 9, 0, 0>>, <<181, 255, 252, 159>>, <<16, 9, 2, 96>>}}

InitInit == InitWith(InitSensors, {DefaultTimeoutMs}, {SPECTRO_PRECISION_MEDIUM})

NextInit ==
    \/ CallInit
    \/ AS7343_init
    \/ AS7343_set_reg_bank
    \/ AS7343_set_gain

SpecInit == InitInit /\ [][NextInit]_vars

\* the registers regs after the acknowledged writes of log, in order
RECURSIVE Applied(_, _)
Applied(regs, log) ==
    IF log = <<>>
    THEN regs
    ELSE Applied(IF Head(log).op = "wr" /\ Head(log).ok
                 THEN [regs EXCEPT ![Head(log).reg] = Head(log).data[1]]
                 ELSE regs,
                 Tail(log))

InInit == call.fn = "AS7343_init"

\* C21: AS7343_init returns false if any of its bus transactions fails (and
\* true if none does); a failed transaction is the last one the call issues
\* (no retry); and nothing is rolled back: at every point the registers are
\* the pre-call registers with the acknowledged writes applied, so a failure
\* at CFG20 leaves PON set and SP_EN as it was
C21_InitStopsAtFirstFailure ==
    InInit =>
        /\ \A i \in 1 .. Len(bus) : ~bus[i].ok => i = Len(bus)
        /\ dev.reg = Applied(pre.reg, bus)
        /\ pc = "done" => (ret <=> BusNeverFailed)
        /\ (pc = "done" /\ bus # <<>> /\ ~bus[Len(bus)].ok
              /\ bus[Len(bus)].reg = AS7343_REG_CFG20) =>
              /\ Bit(dev.reg[AS7343_REG_ENABLE], 0) = 1
              /\ Bit(dev.reg[AS7343_REG_ENABLE], 1)
                    = Bit(pre.reg[AS7343_REG_ENABLE], 1)
              /\ ~ret

C21_Witness ==
    /\ Done("AS7343_init")
    /\ ~ret
    /\ ~bus[Len(bus)].ok
    /\ bus[Len(bus)].reg = AS7343_REG_CFG20
    /\ bus[Len(bus)].op = "wr"
    /\ Bit(pre.reg[AS7343_REG_ENABLE], 0) = 0
    /\ Bit(dev.reg[AS7343_REG_ENABLE], 0) = 1
    /\ Bit(dev.reg[AS7343_REG_ENABLE], 1) = 0
    /\ dev.reg[AS7343_REG_CFG20] = pre.reg[AS7343_REG_CFG20]

\* the bits of v outside the field of width w at bit lo
Outside(v, lo, w) == v - ((v \div 2 ^ lo) % 2 ^ w) * 2 ^ lo

Field(v, lo, w) == (v \div 2 ^ lo) % 2 ^ w

\* the registers AS7343_init writes, in program order; the second CFG0 is
\* the bank select inside AS7343_set_gain
InitWriteOrder ==
    <<AS7343_REG_CFG0, AS7343_REG_ENABLE, AS7343_REG_CFG20, AS7343_REG_CFG0,
      AS7343_REG_CFG1, AS7343_REG_ENABLE>>

\* what the k-th acknowledged write of AS7343_init must carry
InitWriteValue(k, v) ==
    CASE k = 1 -> v = SetBankBit(pre.reg[AS7343_REG_CFG0], AS7343_REG_BANK_0)
      [] k = 2 -> /\ Bit(v, 0) = 1
                  /\ Outside(v, 0, 1) = Outside(pre.reg[AS7343_REG_ENABLE], 0, 1)
      [] k = 3 -> /\ Field(v, 5, 2) = 3
                  /\ Outside(v, 5, 2) = Outside(pre.reg[AS7343_REG_CFG20], 5, 2)
      [] k = 4 -> v = SetBankBit(pre.reg[AS7343_REG_CFG0], AS7343_REG_BANK_0)
      [] k = 5 -> /\ Field(v, 0, 5) = AS7343_GAIN_16X
                  /\ Outside(v, 0, 5) = Outside(pre.reg[AS7343_REG_CFG1], 0, 5)
      [] k = 6 -> /\ Field(v, 0, 2) = 3
                  /\ Outside(v, 0, 2) = Outside(pre.reg[AS7343_REG_ENABLE], 0, 2)

InitConfigured ==
    /\ Field(dev.reg[AS7343_REG_ENABLE], 0, 2) = 3
    /\ Field(dev.reg[AS7343_REG_CFG20], 5, 2) = 3
    /\ Field(dev.reg[AS7343_REG_CFG1], 0, 5) = AS7343_GAIN_16X
    /\ Bit(dev.reg[AS7343_REG_CFG0], 4) = 0
    /\ Outside(dev.reg[AS7343_REG_ENABLE], 0, 2)
          = Outside(pre.reg[AS7343_REG_ENABLE], 0, 2)
    /\ Outside(dev.reg[AS7343_REG_CFG20], 5, 2)
          = Outside(pre.reg[AS7343_REG_CFG20], 5, 2)
    /\ Outside(dev.reg[AS7343_REG_CFG1], 0, 5)
          = Outside(pre.reg[AS7343_REG_CFG1], 0, 5)

\* an ENABLE write carrying SP_EN = 1 is issued only after PON, auto_smux and
\* the gain were written and acknowledged
SpEnWrittenLast ==
    \A i \in 1 .. Len(bus) :
        (bus[i].op = "wr" /\ bus[i].reg = AS7343_REG_ENABLE
           /\ Bit(bus[i].data[1], 1) = 1) =>
            \E a, b, c \in 1 .. i - 1 :
                /\ a < b /\ b < c
                /\ bus[a].op = "wr" /\ bus[a].ok
                /\ bus[a].reg = AS7343_REG_ENABLE /\ Bit(bus[a].data[1], 0) = 1
                /\ bus[b].op = "wr" /\ bus[b].ok
                /\ bus[b].reg = AS7343_REG_CFG20
                /\ bus[c].op = "wr" /\ bus[c].ok
                /\ bus[c].reg = AS7343_REG_CFG1

\* C22 (as stated): the writes of AS7343_init come in the order bank select,
\* ENABLE with PON, CFG20 with auto_smux = 3, CFG1 with gain 16x, ENABLE with
\* SP_EN; SP_EN is never written as 1 before the other three were written
\* successfully; a true return leaves PON, SP_EN, auto_smux = 3, gain = 5,
\* bank 0 and every other bit of ENABLE, CFG20, CFG1 as before the call
C22_SpEnNeverEarly ==
    InInit =>
        /\ Len(AckedWrites) <= Len(InitWriteOrder)
        /\ \A k \in 1 .. Len(AckedWrites) :
              /\ AckedWrites[k].reg = InitWriteOrder[k]
              /\ InitWriteValue(k, AckedWrites[k].data[1])
        /\ SpEnWrittenLast
        /\ (pc = "done" /\ ret) => InitConfigured

\* C22 (amended): the same order, values and postcondition; SP_EN is not
\* turned on early: an ENABLE write carries SP_EN = 1 before PON, auto_smux
\* and gain were written only when SP_EN was already 1 before the call (the
\* read-modify-write of ENABLE writes the bit back as read)
C22_InitOrder ==
    InInit =>
        /\ Len(AckedWrites) <= Len(InitWriteOrder)
        /\ \A k \in 1 .. Len(AckedWrites) :
              /\ AckedWrites[k].reg = InitWriteOrder[k]
              /\ InitWriteValue(k, AckedWrites[k].data[1])
        /\ Bit(pre.reg[AS7343_REG_ENABLE], 1) = 0 => SpEnWrittenLast
        /\ (pc = "done" /\ ret) => InitConfigured

C22_Witness ==
    /\ Done("AS7343_init")
    /\ ret
    /\ pre.reg[AS7343_REG_ENABLE] = 252
    /\ pre.reg[AS7343_REG_CFG20] = 159
    /\ pre.reg[AS7343_REG_CFG1] = 255
    /\ Bit(pre.reg[AS7343_REG_CFG0], 4) = 1
    /\ dev.reg[AS7343_REG_ENABLE] = 255
    /\ dev.reg[AS7343_REG_CFG20] = 255
    /\ dev.reg[AS7343_REG_CFG1] = 229
    /\ Len(AckedWrites) = Len(InitWriteOrder)

\* ---------------------------------------------------------------------------
\* The result of AS7343_init at start-up

SpEn == Bit(dev.reg[AS7343_REG_ENABLE], 1)

\* C23: setup goes from AS7343_init to the connectivity check whatever init
\* returned, printing nothing about it; after that only the result of
\* AS7343_is_connected decides: when it is true, AS7343 Connected! is printed
\* and the measurement loop is entered, also when init returned false.
\* ENABLE is written by init alone and a true result of init means PON and
\* SP_EN are set, so a cleared SP_EN later on tells that init had failed
C23_InitResultDropped ==
    /\ [][/\ pc = "setup_probe" =>
               /\ pc' = "ic_bank1" /\ stack' = <<"setup_check">>
               /\ out' = out /\ dev' = dev
          /\ dev'.reg[AS7343_REG_ENABLE] # dev.reg[AS7343_REG_ENABLE] =>
               (Progress = 1 /\ stack # <<>>)]_vars
    /\ [](pc = "setup_probe" /\ ret =>
             Field(dev.reg[AS7343_REG_ENABLE], 0, 2) = 3)
    /\ [](Progress \in {1, 2} => \A k \in 1 .. Len(out) : out[k] \in AdapterLines)
    /\ (pc = "setup_check" /\ ret) ~> (pc = "ro_entry" /\ Progress = 6)

\* the loop is about to run for the first time, AS7343 Connected! has been
\* printed, and the sensor has PON set but SP_EN never written
C23_Witness ==
    /\ pc = "loop"
    /\ stack = <<>>
    /\ Count(ConnectedLine) = 1
    /\ dev.reg[AS7343_REG_ENABLE] = 1
    /\ SpEn = 0

\* ---------------------------------------------------------------------------
\* The elapsed time across a wrap of millis()

\* the counter has wrapped since the wait began
Wrapped == now.hi < loc.start.hi

\* milliseconds from the start of the wait to the wrap
ToWrap == (Word16 - 1 - loc.start.hi) * Word16 + (Word16 - loc.start.lo)

\* the milliseconds that have passed since the wait began, counted without
\* modular arithmetic (waits here are far shorter than 2^31 ms)
TrueElapsed ==
    IF Wrapped
    THEN ToWrap + now.hi * Word16 + now.lo
    ELSE (now.hi - loc.start.hi) * Word16 + (now.lo - loc.start.lo)

\* elapsed times on both sides of each boundary of the 16-bit range
ElapsedSamples == {0, 1, 2, 3, 800, 32767, 32768, 65535}

\* C24: while AS7343_wait_data_ready polls, (uint16_t)(millis() - start)
\* equals the milliseconds that really passed since the wait began, also
\* after the counter wrapped from 2^32 - 1 to 0 (for every elapsed time
\* below 65536), and the loop goes on exactly when that time is below the
\* timeout: a wrap neither ends the wait early nor extends it
C24_ElapsedWrapSafe ==
    /\ [](\A s \in StartTimes, e \in ElapsedSamples :
             Elapsed16(Add32(s, e), s) = e)
    /\ [](WaitPolling =>
             (TrueElapsed < Word16 /\ Elapsed16(now, loc.start) = TrueElapsed))
    /\ [][pc = "wdr_check" =>
             (pc' = "wdr_poll" <=> TrueElapsed < s_dataReadyTimeoutMs)]_vars

\* the wait began 2 ms before the wrap and is checked 50 ms later
C24_Witness ==
    /\ pc = "wdr_check"
    /\ loc.start = U32(Word16 - 1, Word16 - 2)
    /\ Wrapped
    /\ now = U32(0, 48)
    /\ TrueElapsed = 50
    /\ s_dataReadyTimeoutMs = 50

\* ---------------------------------------------------------------------------
\* The cycles of the run loop

\* loop is running: setup has returned
LoopStarted == Progress = 6

\* a pass of the while (1) of loop has just ended: spectro_app_run_once has
\* returned and out holds what the pass printed
CycleEnd == pc = "loop" /\ stack = <<>> /\ Count(ConnectedLine) = 0

OtherModeLines ==
    {k \in 1 .. Len(out) :
        out[k].text \in {InferLocalPrefix, InferPcPrefix, PcResponsePrefix}}

DataLogRecords == {k \in 1 .. Len(out) : out[k].text = DataLogPrefix}

\* C25: from the moment loop runs the application mode is data-log and the
\* precision mode is high in every state; every pass of the loop has printed
\* either the acquisition-failure diagnostic (once, and no record) or one
\* SORTED record (and no diagnostic), and no pass ever prints the
\* local-inference stub line, a MEAS record or a PC response
C25_LoopStaysDataLogHigh ==
    LoopStarted =>
        /\ s_appMode = SPECTRO_APP_MODE_DATA_LOG
        /\ s_precMode = SPECTRO_PRECISION_HIGH
        /\ OtherModeLines = {}
        /\ CycleEnd =>
              \/ Count(AcquireErrorLine) = 1 /\ DataLogRecords = {}
              \/ Count(AcquireErrorLine) = 0 /\ Cardinality(DataLogRecords) = 1

C25_Witness ==
    /\ CycleEnd
    /\ Len(out) = 1
    /\ out[1].text = DataLogPrefix
    /\ s_precMode = SPECTRO_PRECISION_HIGH
    /\ s_dataReadyTimeoutMs = 800

----------------------------------------------------------------------------
(* SpecCycles: passes of the while (1) of loop, one spectro_app_run_once   *)
(* after the other, the harness noting whether the pass before failed      *)

\* the next pass; call.arg = 1 when the pass before it had failed
CallCycle ==
    Enter("spectro_app_run_once",
          IF call.fn = "spectro_app_run_once" /\ ~ret THEN 1 ELSE 0,
          "ro_entry", LocInit)

InitCycles ==
    InitWith({Sensor(Regs(0, 9), AS7343_DEVICE_ID, s) : s \in St2Samples},
             {ShortTimeoutMs}, {SPECTRO_PRECISION_HIGH})

NextCycles ==
    \/ CallCycle
    \/ spectro_app_run_once
    \/ spectro_app_acquire
    \/ spectro_app_handle_data_log
    \/ AS7343_read_all_channels
    \/ AS7343_get_sorted_spectral_channels
    \/ AS7343_wait_data_ready
    \/ AS7343_set_reg_bank

SpecCycles == InitCycles /\ [][NextCycles]_vars

\* the thread keeps running and the clock advances while it polls
SpecCyclesLive ==
    SpecCycles /\ WF_vars(NextCycles) /\ SF_vars(TimedPoll)

AfterFailedCycle == call.fn = "spectro_app_run_once" /\ call.arg = 1

\* every transaction of the pass was acknowledged and both waits of the
\* acquisition saw AVALID before their timeout
BusGoodAndReady == BusNeverFailed /\ Cardinality(ReadyPolls) = 2

\* C26: a failed acquisition makes spectro_app_run_once print the
\* diagnostic and return at once: no transaction is issued after the failed
\* one, no register or setting is changed, nothing is retried or
\* re-initialised.  The pass that follows a failed pass starts like any
\* other, and when all its bus transactions succeed and AVALID is seen in
\* time it returns with one measurement record and no diagnostic.  Every
\* call of spectro_app_run_once returns.
C26_FailedCycleSkipped ==
    /\ [][(pc = "ro_dispatch" /\ ~ret) =>
             /\ pc' = "done"
             /\ out' = Append(out, AcquireErrorLine)
             /\ <<dev, bus, s_dataReadyTimeoutMs, s_appMode, s_precMode>>'
                   = <<dev, bus, s_dataReadyTimeoutMs, s_appMode, s_precMode>>]_vars
    /\ [](call.fn = "spectro_app_run_once" =>
             /\ \A i \in 1 .. Len(bus) : ~bus[i].ok => i = Len(bus)
             /\ dev.reg = pre.reg)
    /\ []((AfterFailedCycle /\ pc = "done" /\ BusGoodAndReady) =>
             /\ ret
             /\ out = <<DataLogLine(buf.sorted)>>)
    /\ []((AfterFailedCycle /\ pc = "done" /\ ret) => BusGoodAndReady)
    /\ (pc = "ro_entry") ~> (pc = "done")

\* a pass that printed its record right after a pass that had failed
C26_Witness ==
    /\ AfterFailedCycle
    /\ pc = "done"
    /\ ret
    /\ BusGoodAndReady
    /\ Len(out) = 1
    /\ out[1].text = DataLogPrefix

\* ---------------------------------------------------------------------------
\* The reported precision mode and what is programmed

\* spectro_app_get_precision_mode()
spectro_app_get_precision_mode == s_precMode

\* C27: in every state between calls, the initial one and those after a bus
\* failure inside spectro_app_set_precision_mode included, the data-ready
\* timeout and the ATIME/ASTEP registers are the table row of the precision
\* mode that spectro_app_get_precision_mode reports
C27_ReportedPrecisionProgrammed ==
    pc = "done" =>
        LET row == PrecisionConfig(spectro_app_get_precision_mode)
        IN  TripleProgrammed(row.atime, row.astep, row.timeout)

----------------------------------------------------------------------------
(* SpecDriver: the read operations after other driver calls, among them    *)
(* calls that leave the sensor in bank 1                                    *)

InitDriver ==
    InitWith({Sensor(Regs(0, 9), AS7343_DEVICE_ID, 0)},
             {ShortTimeoutMs}, {SPECTRO_PRECISION_MEDIUM})

NextDriver ==
    \/ CallSetRegBank
    \/ CallIsConnected
    \/ CallReadAll
    \/ CallReadSingle
    \/ AS7343_set_reg_bank
    \/ AS7343_is_connected
    \/ AS7343_wait_data_ready
    \/ AS7343_read_all_channels
    \/ AS7343_read_single_channel

SpecDriver == InitDriver /\ [][NextDriver]_vars

\* the transactions of a read of STATUS2 or of a data register
SensorReads ==
    {k \in 1 .. Len(bus) :
        /\ bus[k].op \in {"ptr", "req"}
        /\ bus[k].reg \in {AS7343_REG_STATUS2} \union DataRegs}

ReadCall ==
    call.fn \in {"AS7343_read_all_channels", "AS7343_read_single_channel"}

\* C28: every STATUS2 poll and every data-register burst of a read call
\* (AS7343_read_all_channels, AS7343_read_single_channel and the
\* AS7343_wait_data_ready inside them) is issued while the sensor's bank bit
\* is 0, whatever calls came before, also when the call found the sensor in
\* bank 1; and no other call reads these registers
C28_ReadsInBankZero ==
    /\ \A k \in SensorReads : bus[k].bank = 0
    /\ SensorReads # {} => ReadCall

\* a read call that found the sensor in bank 1 has polled and read a channel
C28_Witness ==
    /\ Done("AS7343_read_single_channel")
    /\ ret
    /\ Bit(pre.reg[AS7343_REG_CFG0], 4) = 1
    /\ RequestsOf(AS7343_REG_STATUS2) # {}
    /\ DataPtrs # {}

\* ---------------------------------------------------------------------------
\* AS7343_set_reg_bank as a read-modify-write of CFG0

\* the read of CFG0 delivered its byte
Cfg0ReadOk == \E k \in RequestsOf(AS7343_REG_CFG0) : bus[k].ok

\* C29: a successful AS7343_set_reg_bank(b) leaves bit 4 of CFG0 equal to b,
\* the other seven bits and every other register as before the call; a call
\* that finds bit 4 already equal to b (a second call with the same b) leaves
\* the registers as they are, and bank(bank(c, b), b) = bank(c, b) for every
\* byte c; when the read of CFG0 fails no write is issued and CFG0 is
\* unchanged
C29_BankReadModifyWrite ==
    /\ \A c \in 0 .. Word8 - 1 :
          \A b \in {AS7343_REG_BANK_0, AS7343_REG_BANK_1} :
              SetBankBit(SetBankBit(c, b), b) = SetBankBit(c, b)
    /\ Done("AS7343_set_reg_bank") =>
          /\ ret =>
                /\ Bit(dev.reg[AS7343_REG_CFG0], 4) = call.arg
                /\ Outside(dev.reg[AS7343_REG_CFG0], 4, 1)
                      = Outside(pre.reg[AS7343_REG_CFG0], 4, 1)
                /\ \A a \in StoredRegs \ {AS7343_REG_CFG0} :
                      dev.reg[a] = pre.reg[a]
          /\ (ret /\ Bit(pre.reg[AS7343_REG_CFG0], 4) = call.arg) =>
                dev.reg = pre.reg
          /\ ~Cfg0ReadOk =>
                /\ ~ret
                /\ WritesTo(AS7343_REG_CFG0) = {}
                /\ dev.reg = pre.reg

\* bank 0 selected on a sensor in bank 1 with other bits of CFG0 set
C29_Witness ==
    /\ Done("AS7343_set_reg_bank")
    /\ ret
    /\ call.arg = AS7343_REG_BANK_0
    /\ pre.reg[AS7343_REG_CFG0] = 181
    /\ dev.reg[AS7343_REG_CFG0] = 165

----------------------------------------------------------------------------
(* SpecEnum: the two setters called with values that are no enumerator,    *)
(* and the cycles that follow                                               *)

\* values of the enumeration types that are none of their three enumerators:
\* the next integer, and the largest value of a byte
OtherValues == {SPECTRO_PRECISION_HIGH + 1, Word8 - 1}

CallSetModeAny ==
    \E m \in {SPECTRO_APP_MODE_DATA_LOG, SPECTRO_APP_MODE_INFER_LOCAL}
                \union OtherValues :
        /\ Setter("spectro_app_set_mode", m)
        /\ spectro_app_set_mode(m)
        /\ UNCHANGED <<s_dataReadyTimeoutMs, s_precMode, serin>>

CallSetPrecisionAny ==
    \E p \in {SPECTRO_PRECISION_LOW} \union OtherValues :
        Enter("spectro_app_set_precision_mode", p, "spm_entry",
              [LocInit EXCEPT !.prec = p])

InitEnum ==
    InitWith({Sensor(Regs(0, 9), AS7343_DEVICE_ID, 0)},
             {DefaultTimeoutMs}, {SPECTRO_PRECISION_MEDIUM})

\* the sensor is prompt, as on the board: a wait ends by its second poll
NextEnum ==
    \/ CallSetModeAny
    \/ CallSetPrecisionAny
    \/ CallRunOnce
    \/ spectro_app_set_precision_mode
    \/ AS7343_set_integration_time
    \/ AS7343_set_reg_bank
    \/ spectro_app_run_once
    \/ spectro_app_acquire
    \/ spectro_app_handle_data_log
    \/ spectro_app_handle_infer_local
    \/ AS7343_read_all_channels
    \/ AS7343_get_sorted_spectral_channels
    \/ AS7343_wait_data_ready /\ SensorPrompt

SpecEnum == InitEnum /\ [][NextEnum]_vars

\* C30: spectro_app_run_once with a stored mode that is none of data-log,
\* infer-local, infer-pc calls the data-log handler and prints one SORTED
\* record; spectro_app_set_precision_mode with a value that is none of low,
\* medium, high stores that value, sets the timeout to 800 ms and writes
\* ATIME = 0x00, ASTEP = 65534 (programmed when the bus does not fail)
C30_EnumFallback ==
    /\ [][(pc = "ro_dispatch" /\ ret /\ s_appMode \notin Modes) =>
             (pc' = "h_data_log" /\ out' = out)]_vars
    /\ []((Done("spectro_app_set_mode") /\ call.arg \notin Modes) =>
             s_appMode = call.arg)
    /\ []((Done("spectro_app_run_once") /\ ret /\ call.mode \notin Modes) =>
             /\ out = <<DataLogLine(buf.sorted)>>
             /\ s_appMode = call.mode)
    /\ []((Done("spectro_app_set_precision_mode")
             /\ call.arg \notin Precisions) =>
             /\ s_precMode = call.arg
             /\ s_dataReadyTimeoutMs = 800
             /\ \A k \in 1 .. Len(AckedWrites) :
                   /\ AckedWrites[k].reg = AS7343_REG_ATIME =>
                         AckedWrites[k].data[1] = 0
                   /\ AckedWrites[k].reg = AS7343_REG_ASTEP_L =>
                         AckedWrites[k].data[1] = 65534 % Word8
                   /\ AckedWrites[k].reg = AS7343_REG_ASTEP_H =>
                         AckedWrites[k].data[1] = 65534 \div Word8
             /\ BusNeverFailed => TripleProgrammed(0, 65534, 800))

\* a cycle in a mode that is no enumerator, after a precision that is none
\* either was set and programmed the high row: one SORTED record
C30_Witness ==
    /\ Done("spectro_app_run_once")
    /\ ret
    /\ s_appMode = SPECTRO_APP_MODE_INFER_PC + 1
    /\ s_precMode = Word8 - 1
    /\ TripleProgrammed(0, 65534, 800)
    /\ Len(out) = 1
    /\ out[1].text = DataLogPrefix

----------------------------------------------------------------------------
(* SpecArgs: the four functions that take a buffer, called with and        *)
(* without one, on a sensor in either bank                                  *)

\* size_t length: none, one short of the 18 channels, exactly 18, one more
LengthSamples ==
    {0, AS7343_NUM_CHANNELS - 1, AS7343_NUM_CHANNELS, AS7343_NUM_CHANNELS + 1}

CallAcquireArgs ==
    \E n \in BOOLEAN :
        Enter("spectro_app_acquire", 0, "acq_entry",
              [LocInit EXCEPT !.null = n])

CallReadAllArgs ==
    \E n \in BOOLEAN, len \in LengthSamples :
        Enter("AS7343_read_all_channels", len, "rac_entry",
              [LocInit EXCEPT !.null = n, !.dst = "raw", !.length = len])

CallReadSingleArgs ==
    \E n \in BOOLEAN :
        Enter("AS7343_read_single_channel", AS7343_CH_BLUE_FZ_450NM,
              "rsc_entry",
              [LocInit EXCEPT !.null = n, !.ch = AS7343_CH_BLUE_FZ_450NM])

CallGetSortedArgs ==
    \E n \in BOOLEAN :
        Enter("AS7343_get_sorted_spectral_channels", 0, "gs_entry",
              [LocInit EXCEPT !.null = n])

InitArgs ==
    InitWith({Sensor(Regs(c, 9), AS7343_DEVICE_ID, 0) : c \in {0, 181}},
             {ShortTimeoutMs}, {SPECTRO_PRECISION_MEDIUM})

NextArgs ==
    \/ CallAcquireArgs
    \/ CallReadAllArgs
    \/ CallReadSingleArgs
    \/ CallGetSortedArgs
    \/ spectro_app_acquire
    \/ AS7343_read_all_channels
    \/ AS7343_read_single_channel
    \/ AS7343_get_sorted_spectral_channels
    \/ AS7343_wait_data_ready
    \/ AS7343_set_reg_bank

SpecArgs == InitArgs /\ [][NextArgs]_vars

BufferCalls ==
    {"spectro_app_acquire", "AS7343_read_all_channels",
     "AS7343_read_single_channel", "AS7343_get_sorted_spectral_channels"}

\* the call in progress was given no buffer, or (read_all_channels) a length
\* below 18
BadArgs ==
    /\ call.fn \in BufferCalls
    /\ \/ loc.null
       \/ call.fn = "AS7343_read_all_channels" /\ call.arg < AS7343_NUM_CHANNELS

\* C31: spectro_app_acquire(NULL), AS7343_read_all_channels with a null
\* buffer or a length below 18, AS7343_read_single_channel with a null output
\* and AS7343_get_sorted_spectral_channels(NULL) return false in their first
\* step: no bus transaction is issued, nothing is printed, and the sensor,
\* the timeout, the two modes and the caller's buffers stay as they were
C31_ArgumentsCheckedFirst ==
    /\ [](BadArgs =>
             /\ bus = <<>>
             /\ out = <<>>
             /\ dev = pre
             /\ buf = StaleBuf
             /\ pc = "done" => ~ret)
    /\ [][(BadArgs /\ pc # "done") =>
             /\ pc' = "done"
             /\ ~ret'
             /\ <<dev, s_dataReadyTimeoutMs, s_appMode, s_precMode, bus, buf,
                  out, now>>'
                   = <<dev, s_dataReadyTimeoutMs, s_appMode, s_precMode, bus,
                       buf, out, now>>]_vars
    /\ []((call.fn \in BufferCalls /\ pc = "done" /\ bus = <<>>) => BadArgs)

\* a buffer of 17 slots was offered while the sensor was in bank 1: false,
\* and not even the bank was switched
C31_Witness ==
    /\ Done("AS7343_read_all_channels")
    /\ ~loc.null
    /\ call.arg = AS7343_NUM_CHANNELS - 1
    /\ ~ret
    /\ bus = <<>>
    /\ DevBank(dev) = 1

====
